---- MODULE Spec2Model ----
(***************************************************************************)
(* The Traffic Processing Unit (TPU) virtual machine of taraffic-vm.       *)
(*                                                                         *)
(* The engine (tick, step, decode_next, execute_opcode and the TPU helper  *)
(* methods) is src/src/tpu/mod.rs; the instruction bodies are the op_*     *)
(* functions of src/src/tpu/{alu,mmu,io_matrix,flow}/mod.rs, dispatched by *)
(* src/src/tpu/execution.rs; the cycle costs are the decode_op_* functions *)
(* of the decode.rs files, dispatched by src/src/tpu/decoder.rs.           *)
(*                                                                         *)
(* An instruction body returns an ExecuteResult (src/src/shared.rs); the   *)
(* engine of mod.rs reads a body's result as "halt or not" plus "the body  *)
(* wrote the program counter itself": Halt(_) is its `true`, PCModified    *)
(* its pc_modified, PCAdvance the fall-through that increments the PC.     *)
(*                                                                         *)
(* A Rust panic (index out of bounds, arithmetic overflow under overflow   *)
(* checks) aborts the process: the model records it in `panicked`.  The    *)
(* build decides whether integer overflow panics (overflow checks, the     *)
(* debug profile) or wraps (the release profile): `overflow_checks` is     *)
(* chosen at Init and never changes.                                       *)
(***************************************************************************)
EXTENDS Integers, Sequences, FiniteSets, TLC

VARIABLES
    tpu_state,        \* TpuState (src/src/tpu/mod.rs:24-57)
    panicked,         \* the process was aborted by a panic
    overflow_checks,  \* build profile: TRUE = integer overflow panics
    execute_result,   \* the ExecuteResult of the last executed body
    step_call,        \* the driver's position inside TPU::step
    timing,           \* ticks spent on the instruction fetched last
    fabric,           \* how many packets the fabric has pushed so far
    last_call,        \* the driver's last call and whether the TPU was halted
    parser,           \* the assembly text given to the parser and its result
    twin              \* the TpuState of a second TPU driven like the first

vars == <<tpu_state, panicked, overflow_checks, execute_result, step_call,
          timing, fabric, last_call, parser, twin>>

-----------------------------------------------------------------------------
(* Program constants *)

STACK_SIZE == 16
NET_BUFFER_SIZE == 8
RAM_SIZE == 128
U16_BITS == 16
DIGITAL_PIN_COUNT == 8
ANALOG_PIN_COUNT == 4

U16_MOD == 2 ^ U16_BITS
U16_MAX == U16_MOD - 1

(* Bounds of the model *)

\* How many packets the fabric pushes into the incoming queue in one run.
MaxFabricPushes == 2

-----------------------------------------------------------------------------
(* Types of src/src/shared.rs *)

Register == {"A", "X", "Y", "R0", "R1", "R2", "R3", "R4", "R5", "R6"}

DigitalPin == 0 .. (DIGITAL_PIN_COUNT - 1)
AnalogPin == 0 .. (ANALOG_PIN_COUNT - 1)

\* OperandValueType
Immediate(v) == [kind |-> "imm", val |-> v, reg |-> "-"]
Reg(r) == [kind |-> "reg", val |-> 0, reg |-> r]
NoOperand == [kind |-> "none", val |-> 0, reg |-> "-"]

\* Instruction: the variant name and up to three operand payloads.
Ins0(op) == [op |-> op, a |-> NoOperand, b |-> NoOperand, c |-> NoOperand]
Ins1(op, a) == [op |-> op, a |-> a, b |-> NoOperand, c |-> NoOperand]
Ins2(op, a, b) == [op |-> op, a |-> a, b |-> b, c |-> NoOperand]
Ins3(op, a, b, c) == [op |-> op, a |-> a, b |-> b, c |-> c]

\* NetPacket
NetPacket(sender, target, data) ==
    [sender |-> sender, target |-> target, data |-> data]
DefaultNetPacket == NetPacket(0, 0, 0)

\* ExecuteResult and HaltReason
PCAdvance == [kind |-> "PCAdvance", reason |-> "-"]
NoPCAdvance == [kind |-> "NoPCAdvance", reason |-> "-"]
PCModified == [kind |-> "PCModified", reason |-> "-"]
Halt(reason) == [kind |-> "Halt", reason |-> reason]
\* Not an ExecuteResult: the body panicked and the process is gone.
Panic(why) == [kind |-> "Panic", reason |-> why]
NoResult == [kind |-> "None", reason |-> "-"]

\* What a body hands back: the state it leaves and its ExecuteResult.
Done(s, res) == [st |-> s, res |-> res]

\* DecodeResult
DecodeResult(cycles, call_every_cycle) ==
    [cycles |-> cycles, call_every_cycle |-> call_every_cycle]

-----------------------------------------------------------------------------
(* 16-bit arithmetic *)

wrapping_add(a, b) == (a + b) % U16_MOD
wrapping_sub(a, b) == (a - b + U16_MOD) % U16_MOD
saturating_add(a, b) == IF a + b > U16_MAX THEN U16_MAX ELSE a + b
saturating_sub(a, b) == IF a - b < 0 THEN 0 ELSE a - b

RECURSIVE BitOp(_, _, _, _)
\* Bitwise combination of the low `n` bits of a and b; f is the truth table
\* <<f(0,0), f(0,1), f(1,0), f(1,1)>>.
BitOp(f, a, b, n) ==
    IF n = 0 THEN 0
    ELSE f[2 * (a % 2) + (b % 2) + 1] + 2 * BitOp(f, a \div 2, b \div 2, n - 1)

BitAnd(a, b) == BitOp(<<0, 0, 0, 1>>, a, b, U16_BITS)
BitOr(a, b) == BitOp(<<0, 1, 1, 1>>, a, b, U16_BITS)
BitXor(a, b) == BitOp(<<0, 1, 1, 0>>, a, b, U16_BITS)
BitNot(a) == U16_MAX - a

\* `value << n` and `value >> n` on u16 once the shift amount is in range;
\* without overflow checks the hardware shift masks the amount to 4 bits.
Shl(value, n) == (value * (2 ^ (n % U16_BITS))) % U16_MOD
Shr(value, n) == value \div (2 ^ (n % U16_BITS))
\* A shift by the type's width or more overflows.
ShiftOverflows(n) == n >= U16_BITS

-----------------------------------------------------------------------------
(* TPU helper methods, src/src/tpu/mod.rs *)

read_register(s, register) == s.registers[register]

write_register(s, register, value) ==
    [s EXCEPT !.registers[register] = value]

get_operand_value(s, operand) ==
    IF operand.kind = "reg" THEN read_register(s, operand.reg)
    ELSE operand.val

\* One cycle for every register operand.
RECURSIVE check_operand_cost(_)
check_operand_cost(operands) ==
    IF operands = <<>> THEN 0
    ELSE (IF Head(operands).kind = "reg" THEN 1 ELSE 0)
         + check_operand_cost(Tail(operands))

\* push() that puts the value under the words of the stack.
push_at_bottom(s, value) == [s EXCEPT !.stack = <<value>> \o @]

push(s, value) == [s EXCEPT !.stack = Append(@, value)]

\* The popped value (0 on an empty stack) and the state after the pop.
pop_value(s) == IF s.stack = <<>> THEN 0 ELSE s.stack[Len(s.stack)]
pop(s) ==
    IF s.stack = <<>> THEN s
    ELSE [s EXCEPT !.stack = SubSeq(@, 1, Len(@) - 1)]

stack_pointer(s) == Len(s.stack)

\* set_analog_pin() that makes the pin it writes an input.
set_analog_pin_claiming_pin(s, pin, value) ==
    IF s.analog_pin_config[pin] THEN s
    ELSE [s EXCEPT !.analog_pins[pin] = value,
                   !.analog_pin_config[pin] = TRUE]

set_analog_pin(s, pin, value) ==
    IF s.analog_pin_config[pin] THEN s
    ELSE [s EXCEPT !.analog_pins[pin] = value]

get_analog_pin(s, pin) == s.analog_pins[pin]

\* set_digital_pin() without the test of the pin's configuration.
set_digital_pin_unconditionally(s, pin, value) ==
    [s EXCEPT !.digital_pins[pin] = value]

set_digital_pin(s, pin, value) ==
    IF s.digital_pin_config[pin] THEN s
    ELSE [s EXCEPT !.digital_pins[pin] = value]

get_digital_pin(s, pin) == s.digital_pins[pin]

\* bit = word & (1 << pin), for every pin.
set_digital_pins(s, word) ==
    [s EXCEPT !.digital_pins =
        [pin \in DigitalPin |->
            IF s.digital_pin_config[pin] THEN s.digital_pins[pin]
            ELSE ((word \div (2 ^ pin)) % 2) # 0]]

RECURSIVE PackPins(_, _)
PackPins(pins, pin) ==
    IF pin = DIGITAL_PIN_COUNT THEN 0
    ELSE (IF pins[pin] THEN 2 ^ pin ELSE 0) + PackPins(pins, pin + 1)

\* get_digital_pins() without the shift of each pin to its bit.
get_digital_pins_unshifted(s) ==
    IF \E pin \in DigitalPin : s.digital_pins[pin] THEN 1 ELSE 0

get_digital_pins(s) == PackPins(s.digital_pins, 0)

read_ram(s, address) ==
    IF address < RAM_SIZE THEN s.ram[address] ELSE 0

write_ram(s, address, value) ==
    IF address < RAM_SIZE THEN [s EXCEPT !.ram[address] = value] ELSE s

send_packet(s, address, data) ==
    [s EXCEPT !.outgoing_packets =
        Append(@, NetPacket(s.network_address, address, data))]

\* The received packet (the default packet on an empty queue) and the state
\* after the receive.
received_packet(s) ==
    IF s.incoming_packets = <<>> THEN DefaultNetPacket
    ELSE Head(s.incoming_packets)
receive_packet(s) ==
    IF s.incoming_packets = <<>> THEN s
    ELSE [s EXCEPT !.incoming_packets = Tail(@)]

-----------------------------------------------------------------------------
(* ALU, src/src/tpu/alu/mod.rs *)

op_inc(s, target) ==
    Done(write_register(s, target.reg,
                        wrapping_add(read_register(s, target.reg), 1)),
         PCAdvance)

op_dec(s, target) ==
    Done(write_register(s, target.reg,
                        wrapping_sub(read_register(s, target.reg), 1)),
         PCAdvance)

op_add(s, left, right) ==
    LET a == read_register(s, left.reg)
        b == read_register(s, right.reg)
    IN  Done(write_register(s, "A", wrapping_add(a, b)), PCAdvance)

op_sub(s, left, right) ==
    LET a == read_register(s, left.reg)
        b == read_register(s, right.reg)
    IN  Done(write_register(s, "A", wrapping_sub(a, b)), PCAdvance)

\* The body computes a.wrapping_sub(b).
op_mul(s, left, right) ==
    LET a == read_register(s, left.reg)
        b == read_register(s, right.reg)
    IN  Done(write_register(s, "A", wrapping_sub(a, b)), PCAdvance)

\* op_div() that saturates on a zero divisor instead of halting.
op_div_saturating(s, left, right) ==
    LET a == read_register(s, left.reg)
        b == read_register(s, right.reg)
    IN  IF b = 0 THEN Done(write_register(s, "A", U16_MAX), PCAdvance)
        ELSE Done(write_register(s, "A", a \div b), PCAdvance)

op_div(s, left, right) ==
    LET a == read_register(s, left.reg)
        b == read_register(s, right.reg)
    IN  IF b = 0 THEN Done(s, Halt("Div0"))
        ELSE Done(write_register(s, "A", a \div b), PCAdvance)

op_mod(s, left, right) ==
    LET a == read_register(s, left.reg)
        b == read_register(s, right.reg)
    IN  IF b = 0 THEN Done(s, Halt("Div0"))
        ELSE Done(write_register(s, "A", a % b), PCAdvance)

op_and(s, left, right) ==
    LET a == read_register(s, left.reg)
        b == read_register(s, right.reg)
    IN  Done(write_register(s, "A", BitAnd(a, b)), PCAdvance)

op_or(s, left, right) ==
    LET a == read_register(s, left.reg)
        b == read_register(s, right.reg)
    IN  Done(write_register(s, "A", BitOr(a, b)), PCAdvance)

op_xor(s, left, right) ==
    LET a == read_register(s, left.reg)
        b == read_register(s, right.reg)
    IN  Done(write_register(s, "A", BitXor(a, b)), PCAdvance)

op_not(s, left) ==
    Done(write_register(s, "A", BitNot(read_register(s, left.reg))), PCAdvance)

\* value << shift
op_sll(s, target, value, shift) ==
    LET v == read_register(s, value.reg)
        n == get_operand_value(s, shift)
    IN  IF ShiftOverflows(n) /\ overflow_checks
        THEN Done(s, Panic("shift left with overflow"))
        ELSE Done(write_register(s, target.reg, Shl(v, n)), PCAdvance)

op_slc(s, target, value, shift) ==
    LET v == read_register(s, value.reg)
        n == get_operand_value(s, shift)
        carry == IF n > 0 /\ n < 16
                 THEN BitAnd(Shr(v, 16 - n), (2 ^ n) - 1)
                 ELSE IF n >= 16 THEN v ELSE 0
    IN  IF ShiftOverflows(n) /\ overflow_checks
        THEN Done(s, Panic("shift left with overflow"))
        ELSE Done(write_register(write_register(s, target.reg, Shl(v, n)),
                                 "A", carry),
                  PCAdvance)

\* value >> shift
op_slr(s, target, value, shift) ==
    LET v == read_register(s, value.reg)
        n == get_operand_value(s, shift)
    IN  IF ShiftOverflows(n) /\ overflow_checks
        THEN Done(s, Panic("shift right with overflow"))
        ELSE Done(write_register(s, target.reg, Shr(v, n)), PCAdvance)

op_src(s, target, value, shift) ==
    LET v == read_register(s, value.reg)
        n == get_operand_value(s, shift)
        carry == IF n > 0 /\ n < 16
                 THEN Shl(BitAnd(v, (2 ^ n) - 1), 16 - n)
                 ELSE IF n >= 16 THEN v ELSE 0
    IN  IF ShiftOverflows(n) /\ overflow_checks
        THEN Done(s, Panic("shift right with overflow"))
        ELSE Done(write_register(write_register(s, target.reg, Shr(v, n)),
                                 "A", carry),
                  PCAdvance)

\* (value << rotate) | (value >> (16 - rotate)), rotate = operand % 16
\* op_rol() that loses the bits shifted out at the top.
op_rol_without_wraparound(s, target, value, rotate) ==
    LET v == read_register(s, value.reg)
        n == get_operand_value(s, rotate) % 16
    IN  Done(write_register(s, target.reg, Shl(v, n)), PCAdvance)

op_rol(s, target, value, rotate) ==
    LET v == read_register(s, value.reg)
        n == get_operand_value(s, rotate) % 16
    IN  IF ShiftOverflows(16 - n) /\ overflow_checks
        THEN Done(s, Panic("shift right with overflow"))
        ELSE Done(write_register(s, target.reg,
                                 BitOr(Shl(v, n), Shr(v, 16 - n))),
                  PCAdvance)

\* (value >> rotate) | (value << (16 - rotate)), rotate = operand % 16
op_ror(s, target, value, rotate) ==
    LET v == read_register(s, value.reg)
        n == get_operand_value(s, rotate) % 16
    IN  IF ShiftOverflows(16 - n) /\ overflow_checks
        THEN Done(s, Panic("shift left with overflow"))
        ELSE Done(write_register(s, target.reg,
                                 BitOr(Shr(v, n), Shl(v, 16 - n))),
                  PCAdvance)

-----------------------------------------------------------------------------
(* MMU, src/src/tpu/mmu/mod.rs *)

\* op_push() with the capacity test off by one.
op_push_off_by_one(s, operand) ==
    IF Len(s.stack) > STACK_SIZE THEN Done(s, Halt("StackOverflow"))
    ELSE Done(push(s, get_operand_value(s, operand)), PCAdvance)

op_push(s, operand) ==
    IF Len(s.stack) = STACK_SIZE THEN Done(s, Halt("StackOverflow"))
    ELSE Done(push(s, get_operand_value(s, operand)), PCAdvance)

op_pop(s, operand) ==
    Done(write_register(pop(s), operand.reg, pop_value(s)), PCAdvance)

\* stack[index] is 0-based: it exists when index < len.
op_peek(s, operand_1, operand_2) ==
    LET index == get_operand_value(s, operand_2)
    IN  IF index > STACK_SIZE \/ index > Len(s.stack)
        THEN Done(s, Halt("IndexOutOfRange"))
        ELSE IF index >= Len(s.stack)
        THEN Done(s, Panic("index out of bounds"))
        ELSE Done(write_register(s, operand_1.reg, s.stack[index + 1]),
                  PCAdvance)

op_scr(s) == Done([s EXCEPT !.stack = <<>>], PCAdvance)

op_rsp(s, operand) ==
    Done(write_register(s, operand.reg, stack_pointer(s)), PCAdvance)

op_rcy(s, operand_1, operand_2) ==
    Done(write_register(s, operand_1.reg, read_register(s, operand_2.reg)),
         PCAdvance)

op_rmv(s, operand_1, operand_2) ==
    LET value == read_register(s, operand_2.reg)
    IN  Done(write_register(write_register(s, operand_1.reg, value),
                            operand_2.reg, 0),
             PCAdvance)

op_ldr(s, target, source) ==
    Done(write_register(s, target.reg, get_operand_value(s, source)),
         PCAdvance)

\* address + offset is computed in usize: it does not wrap at 16 bits.
op_ldo(s, target, source, offset) ==
    LET address == get_operand_value(s, source)
        offset_amount == read_register(s, offset.reg)
    IN  Done(write_register(s, target.reg,
                            read_ram(s, address + offset_amount)),
             PCAdvance)

op_ldoi(s, target, source, offset) ==
    LET s1 == op_ldo(s, target, source, offset).st
    IN  Done(write_register(s1, offset.reg,
                            wrapping_add(read_register(s1, offset.reg), 1)),
             PCAdvance)

op_stm(s, target, source) ==
    Done(write_ram(s, get_operand_value(s, target),
                   get_operand_value(s, source)),
         PCAdvance)

\* op_stmo() adding the offset to the address in 16 bits.
op_stmo_wrapping_address(s, target, source, offset) ==
    LET address == get_operand_value(s, target)
        value == get_operand_value(s, source)
        offset_amount == read_register(s, offset.reg)
    IN  Done(write_ram(s, wrapping_add(address, offset_amount), value),
             PCAdvance)

op_stmo(s, target, source, offset) ==
    LET address == get_operand_value(s, target)
        value == get_operand_value(s, source)
        offset_amount == read_register(s, offset.reg)
    IN  Done(write_ram(s, address + offset_amount, value), PCAdvance)

op_smoi(s, target, source, offset) ==
    LET s1 == op_stmo(s, target, source, offset).st
    IN  Done(write_register(s1, offset.reg,
                            wrapping_add(read_register(s1, offset.reg), 1)),
             PCAdvance)

-----------------------------------------------------------------------------
(* I/O matrix, src/src/tpu/io_matrix/mod.rs *)

\* DigitalPin::from_repr / AnalogPin::from_repr give None outside the enum.
\* op_dpw() reducing the pin number to the eight pins instead of halting.
op_dpw_wrapping_pin(s, target, source) ==
    LET pin_num == get_operand_value(s, target)
        value == get_operand_value(s, source)
    IN  Done(set_digital_pin(s, pin_num % DIGITAL_PIN_COUNT, value # 0),
             PCAdvance)

op_dpw(s, target, source) ==
    LET pin_num == get_operand_value(s, target)
        value == get_operand_value(s, source)
    IN  IF pin_num \notin DigitalPin THEN Done(s, Halt("IndexOutOfRange"))
        ELSE Done(set_digital_pin(s, pin_num, value # 0), PCAdvance)

op_dpr(s, target, source) ==
    LET pin_num == get_operand_value(s, source)
    IN  IF pin_num \notin DigitalPin THEN Done(s, Halt("IndexOutOfRange"))
        ELSE Done(write_register(s, target.reg,
                                 IF get_digital_pin(s, pin_num) THEN 1 ELSE 0),
                  PCAdvance)

op_apw(s, target, source) ==
    LET pin_num == get_operand_value(s, target)
        value == get_operand_value(s, source)
    IN  IF pin_num \notin AnalogPin THEN Done(s, Halt("IndexOutOfRange"))
        ELSE Done(set_analog_pin(s, pin_num, value), PCAdvance)

op_apr(s, target, source) ==
    LET pin_num == get_operand_value(s, source)
    IN  IF pin_num \notin AnalogPin THEN Done(s, Halt("IndexOutOfRange"))
        ELSE Done(write_register(s, target.reg, get_analog_pin(s, pin_num)),
                  PCAdvance)

\* op_xmit() with the capacity test off by one.
op_xmit_off_by_one(s, target, data) ==
    LET address == read_register(s, target.reg)
        value == get_operand_value(s, data)
    IN  IF Len(s.outgoing_packets) <= NET_BUFFER_SIZE
        THEN Done(send_packet(s, address, value), PCAdvance)
        ELSE Done(s, PCAdvance)

op_xmit(s, target, data) ==
    LET address == read_register(s, target.reg)
        value == get_operand_value(s, data)
    IN  IF Len(s.outgoing_packets) < NET_BUFFER_SIZE
        THEN Done(send_packet(s, address, value), PCAdvance)
        ELSE Done(s, PCAdvance)

op_recv(s) ==
    LET packet == received_packet(s)
    IN  Done(write_register(write_register(receive_packet(s),
                                           "X", packet.sender),
                            "Y", packet.data),
             PCAdvance)

op_txbs(s) ==
    Done(write_register(s, "X", Len(s.outgoing_packets)), PCAdvance)

op_rxbs(s) ==
    Done(write_register(s, "X", Len(s.incoming_packets)), PCAdvance)

op_dpww(s, value) ==
    Done(set_digital_pins(s, get_operand_value(s, value)), PCAdvance)

op_dprw(s, target) ==
    Done(write_register(s, target.reg, get_digital_pins(s)), PCAdvance)

-----------------------------------------------------------------------------
(* Flow, src/src/tpu/flow/mod.rs *)

\* set_program_counter_conditionally() comparing against rom.len().
set_program_counter_off_by_one(s, condition, address) ==
    LET target == IF condition THEN address ELSE s.program_counter + 1
    IN  IF target > Len(s.rom) THEN Done(s, Halt("InvalidPC"))
        ELSE Done([s EXCEPT !.program_counter = target], PCModified)

\* rom.len() - 1 underflows on an empty ROM: a panic under overflow checks,
\* usize::MAX (no target is above it) without them.
set_program_counter_conditionally(s, condition, address) ==
    LET target == IF condition THEN address ELSE s.program_counter + 1
    IN  IF Len(s.rom) = 0 /\ overflow_checks
        THEN Done(s, Panic("subtract with overflow"))
        ELSE IF Len(s.rom) > 0 /\ target > Len(s.rom) - 1
        THEN Done(s, Halt("InvalidPC"))
        ELSE Done([s EXCEPT !.program_counter = target], PCModified)

op_jmp(s, target) ==
    set_program_counter_conditionally(s, TRUE, get_operand_value(s, target))

\* The comparison a branch makes between its register and its value.
Compare(op, a, b) ==
    CASE op \in {"BEZ", "BREZ", "BEQ", "BREQ"} -> a = b
      [] op \in {"BNZ", "BRNZ", "BNE", "BRNE"} -> a # b
      [] op \in {"BGE", "BRGE"} -> a >= b
      [] op \in {"BLE", "BRLE"} -> a <= b
      [] op \in {"BGT", "BRGT"} -> a > b
      [] op \in {"BLT", "BRLT"} -> a < b

\* op_bez, op_bnz: the register against 0.
op_branch_zero(s, op, target, source) ==
    LET address == get_operand_value(s, target)
        value == read_register(s, source.reg)
    IN  set_program_counter_conditionally(s, Compare(op, value, 0), address)

\* op_beq .. op_blt: the register against the value operand.
op_branch_compare(s, op, target, source, value) ==
    LET address == get_operand_value(s, target)
        a == read_register(s, source.reg)
        b == get_operand_value(s, value)
    IN  set_program_counter_conditionally(s, Compare(op, a, b), address)

\* new_pc = program_counter + offset, in usize.
op_jpr(s, target) ==
    LET offset == get_operand_value(s, target)
    IN  set_program_counter_conditionally(s, TRUE, s.program_counter + offset)

\* op_brez, op_brnz
op_branch_rel_zero(s, op, target, source) ==
    LET offset == get_operand_value(s, target)
        value == read_register(s, source.reg)
    IN  set_program_counter_conditionally(s, Compare(op, value, 0),
                                          s.program_counter + offset)

\* op_breq .. op_brlt
op_branch_rel_compare(s, op, target, source, value) ==
    LET offset == get_operand_value(s, target)
        a == read_register(s, source.reg)
        b == get_operand_value(s, value)
    IN  set_program_counter_conditionally(s, Compare(op, a, b),
                                          s.program_counter + offset)

\* The pushed return address is the program counter before the jump.
\* op_jsr() validating the landing address before the stack space.
op_jsr_validating_target_first(s, target) ==
    LET address == get_operand_value(s, target)
        old_pc == s.program_counter
        result == set_program_counter_conditionally(s, TRUE, address)
    IN  IF result.res # PCModified THEN result
        ELSE IF Len(s.stack) = STACK_SIZE
        THEN Done(s, Halt("StackOverflow"))
        ELSE Done(push(result.st, old_pc % U16_MOD), PCModified)

op_jsr(s, target) ==
    LET address == get_operand_value(s, target)
        old_pc == s.program_counter
        result == set_program_counter_conditionally(s, TRUE, address)
    IN  IF Len(s.stack) = STACK_SIZE THEN Done(s, Halt("StackOverflow"))
        ELSE IF result.res = PCModified
        THEN Done(push(result.st, old_pc % U16_MOD), PCModified)
        ELSE result

\* op_rts() halting on an empty stack.
op_rts_halting_on_empty_stack(s) ==
    IF s.stack = <<>> THEN Done(s, Halt("InvalidPC"))
    ELSE set_program_counter_conditionally(pop(s), TRUE, pop_value(s))

op_rts(s) ==
    set_program_counter_conditionally(pop(s), TRUE, pop_value(s))

-----------------------------------------------------------------------------
(* Misc operations, src/src/tpu/mod.rs *)

\* "Sleep is handled by the wait_cycles mechanism": the body does nothing.
op_slp(s) == Done(s, PCAdvance)

\* Both arms of the queue test are empty: the body does nothing.
op_wrx(s) == Done(s, PCAdvance)

op_hlt(s) == Done(s, Halt("HLTOpcode"))

op_nop(s) == Done(s, PCAdvance)

decode_op_slp(s, operand) ==
    DecodeResult(saturating_add(check_operand_cost(<<operand>>),
                                get_operand_value(s, operand)),
                 FALSE)

decode_op_wrx == DecodeResult(1, FALSE)

decode_op_hlt == DecodeResult(1, FALSE)

decode_op_nop == DecodeResult(1, FALSE)

-----------------------------------------------------------------------------
(* src/src/tpu/execution.rs *)

AbsZeroBranch == {"BEZ", "BNZ"}
AbsCompareBranch == {"BEQ", "BNE", "BGE", "BLE", "BGT", "BLT"}
RelZeroBranch == {"BREZ", "BRNZ"}
RelCompareBranch == {"BREQ", "BRNE", "BRGE", "BRLE", "BRGT", "BRLT"}
Branch == AbsZeroBranch \cup AbsCompareBranch \cup RelZeroBranch
          \cup RelCompareBranch
FlowControl == {"JMP", "JPR", "JSR", "RTS"} \cup Branch

execute(s, i) ==
    CASE i.op = "PUSH" -> op_push(s, i.a)
      [] i.op = "POP" -> op_pop(s, i.a)
      [] i.op = "PEEK" -> op_peek(s, i.a, i.b)
      [] i.op = "SCR" -> op_scr(s)
      [] i.op = "RSP" -> op_rsp(s, i.a)
      [] i.op = "XMIT" -> op_xmit(s, i.a, i.b)
      [] i.op = "RECV" -> op_recv(s)
      [] i.op = "TXBS" -> op_txbs(s)
      [] i.op = "RXBS" -> op_rxbs(s)
      [] i.op = "WRX" -> op_wrx(s)
      [] i.op = "ADD" -> op_add(s, i.a, i.b)
      [] i.op = "SUB" -> op_sub(s, i.a, i.b)
      [] i.op = "MUL" -> op_mul(s, i.a, i.b)
      [] i.op = "DIV" -> op_div(s, i.a, i.b)
      [] i.op = "MOD" -> op_mod(s, i.a, i.b)
      [] i.op = "AND" -> op_and(s, i.a, i.b)
      [] i.op = "OR" -> op_or(s, i.a, i.b)
      [] i.op = "XOR" -> op_xor(s, i.a, i.b)
      [] i.op = "NOT" -> op_not(s, i.a)
      [] i.op = "INC" -> op_inc(s, i.a)
      [] i.op = "DEC" -> op_dec(s, i.a)
      [] i.op = "SLL" -> op_sll(s, i.a, i.b, i.c)
      [] i.op = "SLR" -> op_slr(s, i.a, i.b, i.c)
      [] i.op = "SLC" -> op_slc(s, i.a, i.b, i.c)
      [] i.op = "SRC" -> op_src(s, i.a, i.b, i.c)
      [] i.op = "ROL" -> op_rol(s, i.a, i.b, i.c)
      [] i.op = "ROR" -> op_ror(s, i.a, i.b, i.c)
      [] i.op = "RCY" -> op_rcy(s, i.a, i.b)
      [] i.op = "RMV" -> op_rmv(s, i.a, i.b)
      [] i.op = "LDR" -> op_ldr(s, i.a, i.b)
      [] i.op = "LDO" -> op_ldo(s, i.a, i.b, i.c)
      [] i.op = "LDOI" -> op_ldoi(s, i.a, i.b, i.c)
      [] i.op = "STM" -> op_stm(s, i.a, i.b)
      [] i.op = "STMO" -> op_stmo(s, i.a, i.b, i.c)
      [] i.op = "SMOI" -> op_smoi(s, i.a, i.b, i.c)
      [] i.op = "DPW" -> op_dpw(s, i.a, i.b)
      [] i.op = "DPR" -> op_dpr(s, i.a, i.b)
      [] i.op = "DPWW" -> op_dpww(s, i.a)
      [] i.op = "DPRW" -> op_dprw(s, i.a)
      [] i.op = "APW" -> op_apw(s, i.a, i.b)
      [] i.op = "APR" -> op_apr(s, i.a, i.b)
      [] i.op = "SLP" -> op_slp(s)
      [] i.op = "NOP" -> op_nop(s)
      [] i.op = "HLT" -> op_hlt(s)
      [] i.op = "JMP" -> op_jmp(s, i.a)
      [] i.op \in AbsZeroBranch -> op_branch_zero(s, i.op, i.a, i.b)
      [] i.op \in AbsCompareBranch ->
            op_branch_compare(s, i.op, i.a, i.b, i.c)
      [] i.op = "JPR" -> op_jpr(s, i.a)
      [] i.op \in RelZeroBranch -> op_branch_rel_zero(s, i.op, i.a, i.b)
      [] i.op \in RelCompareBranch ->
            op_branch_rel_compare(s, i.op, i.a, i.b, i.c)
      [] i.op = "JSR" -> op_jsr(s, i.a)
      [] i.op = "RTS" -> op_rts(s)

-----------------------------------------------------------------------------
(* src/src/tpu/decoder.rs and the decode.rs files *)

decode(s, i) ==
    CASE i.op = "PUSH" -> DecodeResult(check_operand_cost(<<i.a>>) + 1, FALSE)
      [] i.op = "POP" -> DecodeResult(2, FALSE)
      [] i.op = "PEEK" -> DecodeResult(check_operand_cost(<<i.b>>) + 1, FALSE)
      [] i.op = "SCR" -> DecodeResult(2, FALSE)
      [] i.op = "RSP" -> DecodeResult(1, FALSE)
      [] i.op \in {"XMIT", "RECV"} -> DecodeResult(10, FALSE)
      [] i.op \in {"TXBS", "RXBS"} -> DecodeResult(2, FALSE)
      [] i.op \in {"INC", "DEC", "ADD", "SUB"} -> DecodeResult(2, FALSE)
      [] i.op = "MUL" -> DecodeResult(4, FALSE)
      [] i.op \in {"DIV", "MOD"} -> DecodeResult(6, FALSE)
      [] i.op \in {"AND", "OR", "XOR"} -> DecodeResult(3, FALSE)
      [] i.op = "NOT" -> DecodeResult(2, FALSE)
      [] i.op \in {"SLL", "SLC", "SLR", "SRC", "ROL", "ROR"} ->
            DecodeResult(check_operand_cost(<<i.c>>) + 2, FALSE)
      [] i.op = "RCY" -> DecodeResult(2, FALSE)
      [] i.op = "RMV" -> DecodeResult(3, FALSE)
      [] i.op = "LDR" -> DecodeResult(check_operand_cost(<<i.b>>) + 1, FALSE)
      [] i.op = "LDO" -> DecodeResult(check_operand_cost(<<i.b>>) + 2, FALSE)
      [] i.op = "LDOI" -> DecodeResult(check_operand_cost(<<i.b>>) + 3, FALSE)
      [] i.op = "STM" -> DecodeResult(check_operand_cost(<<i.b>>) + 1, FALSE)
      [] i.op = "STMO" -> DecodeResult(check_operand_cost(<<i.b>>) + 4, FALSE)
      [] i.op = "SMOI" -> DecodeResult(check_operand_cost(<<i.b>>) + 5, FALSE)
      [] i.op \in {"DPW", "APW"} ->
            DecodeResult(check_operand_cost(<<i.a, i.b>>) + 4, FALSE)
      [] i.op = "DPR" -> DecodeResult(check_operand_cost(<<i.b>>) + 2, FALSE)
      [] i.op = "APR" -> DecodeResult(check_operand_cost(<<i.b>>) + 4, FALSE)
      [] i.op = "DPWW" -> DecodeResult(check_operand_cost(<<i.a>>) + 4, FALSE)
      [] i.op = "DPRW" -> DecodeResult(2, FALSE)
      [] i.op = "NOP" -> decode_op_nop
      [] i.op = "SLP" -> decode_op_slp(s, i.a)
      [] i.op = "WRX" -> decode_op_wrx
      [] i.op = "HLT" -> decode_op_hlt
      [] i.op \in {"JMP", "JPR"} ->
            DecodeResult(check_operand_cost(<<i.a>>) + 1, TRUE)
      [] i.op \in Branch -> DecodeResult(3, TRUE)
      [] i.op = "JSR" -> DecodeResult(check_operand_cost(<<i.a>>) + 4, TRUE)
      [] i.op = "RTS" -> DecodeResult(2, TRUE)

-----------------------------------------------------------------------------
(* The engine, src/src/tpu/mod.rs *)

\* Option<DecodedOpcode>: <<>> is None, <<d>> is Some(d).
None == <<>>
Some(d) == <<d>>
\* DecodedOpcode that is called every cycle whatever the decoder said.
DecodedOpcode_called_every_cycle(i, d) ==
    [instruction |-> i, cycles |-> d.cycles, call_every_cycle |-> TRUE]

DecodedOpcode(i, d) ==
    [instruction |-> i, cycles |-> d.cycles,
     call_every_cycle |-> d.call_every_cycle]

\* execute_opcode() without the increment of the program counter.
execute_opcode_without_increment(s, instruction) ==
    LET r == execute(s, instruction.instruction)
        s1 == [r.st EXCEPT !.wait_cycles = 0, !.decoded_opcode = None]
    IN  CASE r.res.kind = "Panic" -> r
          [] r.res.kind = "Halt" -> Done([r.st EXCEPT !.halted = TRUE], r.res)
          [] OTHER -> Done(s1, r.res)

execute_opcode(s, instruction) ==
    LET r == execute(s, instruction.instruction)
        s1 == [r.st EXCEPT !.wait_cycles = 0, !.decoded_opcode = None]
    IN  CASE r.res.kind = "Panic" -> r
          [] r.res.kind = "Halt" -> Done([r.st EXCEPT !.halted = TRUE], r.res)
          [] r.res.kind = "PCModified" -> Done(s1, r.res)
          [] OTHER ->
                \* program_counter + 1 > rom.len() - 1, then the increment
                Done([s1 EXCEPT
                        !.halted = (@ \/ s1.program_counter + 1 > Len(s1.rom) - 1),
                        !.program_counter = @ + 1],
                     r.res)

\* wait_cycles = cycles - 1 in u16: with cycles = 0 it panics under overflow
\* checks and wraps to 65535 without them.
\* decode_next() that always stores the instruction for a later tick.
decode_next_always_waits(s) ==
    IF s.program_counter >= Len(s.rom) THEN Done(s, Panic("index out of bounds"))
    ELSE LET instruction == s.rom[s.program_counter + 1]
             result == decode(s, instruction)
             decoded == DecodedOpcode(instruction, result)
         IN  Done([s EXCEPT !.wait_cycles = saturating_sub(result.cycles, 1),
                            !.decoded_opcode = Some(decoded)], NoResult)

decode_next(s) ==
    IF s.program_counter >= Len(s.rom)
    THEN Done(s, Panic("index out of bounds"))
    ELSE
    LET instruction == s.rom[s.program_counter + 1]
        result == decode(s, instruction)
        decoded == DecodedOpcode(instruction, result)
    IN  IF result.cycles = 1 THEN execute_opcode(s, decoded)
        ELSE IF result.cycles = 0 /\ overflow_checks
        THEN Done(s, Panic("subtract with overflow"))
        ELSE Done([s EXCEPT
                      !.wait_cycles = wrapping_sub(result.cycles, 1),
                      !.decoded_opcode = Some(decoded)],
                  NoResult)

\* tick() running the body of the instruction in flight on every tick.
tick_executing_while_waiting(s) ==
    LET s1 == [s EXCEPT !.wait_cycles = saturating_sub(@, 1)]
    IN  IF s1.halted THEN Done(s1, NoResult)
        ELSE IF s1.decoded_opcode # None /\ s1.wait_cycles > 0
        THEN Done([execute(s1, s1.decoded_opcode[1].instruction).st
                      EXCEPT !.wait_cycles = s1.wait_cycles],
                  NoResult)
        ELSE IF s1.decoded_opcode # None
        THEN execute_opcode([s1 EXCEPT !.decoded_opcode = None],
                            s1.decoded_opcode[1])
        ELSE decode_next(s1)

\* tick() without the test of the halted flag.
tick_ignoring_halted(s) ==
    LET s1 == [s EXCEPT !.wait_cycles = saturating_sub(@, 1)]
    IN  IF s1.wait_cycles > 0 THEN Done(s1, NoResult)
        ELSE IF s1.decoded_opcode # None
        THEN execute_opcode([s1 EXCEPT !.decoded_opcode = None],
                            s1.decoded_opcode[1])
        ELSE decode_next(s1)

tick(s) ==
    LET s1 == [s EXCEPT !.wait_cycles = saturating_sub(@, 1)]
    IN  IF s1.halted \/ s1.wait_cycles > 0 THEN Done(s1, NoResult)
        ELSE IF s1.decoded_opcode # None
        THEN execute_opcode([s1 EXCEPT !.decoded_opcode = None],
                            s1.decoded_opcode[1])
        ELSE decode_next(s1)

\* Self { tpu_state }
new_from_state(tpu_state_given) == tpu_state_given

\* busy() that counts a halted TPU as busy.
busy_when_halted(s) == s.wait_cycles > 0 \/ s.halted

busy(s) == s.wait_cycles > 0

halted(s) == s.halted

reset(s) ==
    [s EXCEPT
        !.stack = <<>>,
        !.program_counter = 0,
        !.halted = FALSE,
        !.wait_cycles = 0,
        !.registers = [r \in Register |-> 0],
        !.ram = [a \in 0 .. (RAM_SIZE - 1) |-> 0],
        !.incoming_packets = <<>>,
        !.outgoing_packets = <<>>,
        !.digital_pins = [pin \in DigitalPin |->
                            IF s.digital_pin_config[pin] THEN @[pin] ELSE FALSE],
        !.analog_pins = [pin \in AnalogPin |->
                            IF s.analog_pin_config[pin] THEN @[pin] ELSE 0]]

new(network_address, analog_pin_config, digital_pin_config, program) ==
    reset([stack |-> <<>>,
           analog_pins |-> [pin \in AnalogPin |-> 0],
           digital_pins |-> [pin \in DigitalPin |-> FALSE],
           analog_pin_config |-> analog_pin_config,
           digital_pin_config |-> digital_pin_config,
           decoded_opcode |-> None,
           ram |-> [a \in 0 .. (RAM_SIZE - 1) |-> 0],
           rom |-> program,
           network_address |-> network_address,
           incoming_packets |-> <<>>,
           outgoing_packets |-> <<>>,
           registers |-> [r \in Register |-> 0],
           wait_cycles |-> 0,
           program_counter |-> 0,
           halted |-> FALSE])

-----------------------------------------------------------------------------
(* The assembly parser, src/src/rgal/mod.rs and the opcode tables of       *)
(* src/src/rgal and src/src/tps                                             *)

\* Result<_, pest::error::Error<Rule>>
Ok(value) == [ok |-> TRUE, value |-> value]
Err(message) == [ok |-> FALSE, message |-> message]

\* A line of assembly text: the mnemonic and the operand texts.  An operand
\* text carries the grammar rule that reads it and, for a number, its
\* digits after the prefix.
SourceLine(opcode, operands) == [opcode |-> opcode, operands |-> operands]
BlankLine == SourceLine("", <<>>)
RegisterText(name) == [rule |-> "register", text |-> name, digits |-> <<>>]
NumberText(rule, digits) == [rule |-> rule, text |-> "", digits |-> digits]

\* The instruction variants with their operand payloads: "r" is a Register
\* payload, "v" an OperandValueType payload.
Instruction ==
    [m \in {"SCR", "RECV", "TXBS", "RXBS", "NOP", "WRX", "HLT", "RTS"}
        |-> <<>>]
    @@ [m \in {"POP", "RSP", "NOT", "INC", "DEC", "DPRW"} |-> <<"r">>]
    @@ [m \in {"PUSH", "DPWW", "SLP", "JMP", "JPR", "JSR"} |-> <<"v">>]
    @@ [m \in {"ADD", "SUB", "MUL", "DIV", "MOD", "AND", "OR", "XOR", "RCY",
               "RMV"} |-> <<"r", "r">>]
    @@ [m \in {"PEEK", "XMIT", "LDR", "DPR", "APR"} |-> <<"r", "v">>]
    @@ [m \in {"BEZ", "BNZ", "BREZ", "BRNZ"} |-> <<"v", "r">>]
    @@ [m \in {"STM", "DPW", "APW"} |-> <<"v", "v">>]
    @@ [m \in {"SLL", "SLC", "SLR", "SRC", "ROL", "ROR"} |-> <<"r", "r", "v">>]
    @@ [m \in {"LDO", "LDOI"} |-> <<"r", "v", "r">>]
    @@ [m \in {"STMO", "SMOI"} |-> <<"v", "v", "r">>]
    @@ [m \in AbsCompareBranch \cup RelCompareBranch |-> <<"v", "r", "v">>]

\* The rules of the grammar that classify a line by its operand shape.
RuleOperands ==
    [no_operand_instruction |-> <<>>,
     one_reg_operand_instruction |-> <<"r">>,
     one_any_operand_instruction |-> <<"v">>,
     two_reg_reg_operand_instruction |-> <<"r", "r">>,
     two_reg_any_operand_instruction |-> <<"r", "v">>,
     two_any_reg_operand_instruction |-> <<"v", "r">>,
     two_any_any_operand_instruction |-> <<"v", "v">>,
     three_reg_any_any_operand_instruction |-> <<"r", "v", "v">>,
     three_any_reg_any_operand_instruction |-> <<"v", "r", "v">>,
     three_reg_reg_any_operand_instruction |-> <<"r", "r", "v">>,
     three_any_any_reg_operand_instruction |-> <<"v", "v", "r">>,
     three_reg_any_reg_operand_instruction |-> <<"r", "v", "r">>]

\* The operand text is read by the grammar as an operand of kind "r" or "v".
ReadsAs(kind, operand) ==
    IF kind = "r" THEN operand.rule = "register" /\ operand.text \in Register
    ELSE \/ operand.rule = "register" /\ operand.text \in Register
         \/ /\ operand.rule \in {"decimal_number", "hex_number",
                                 "binary_number"}
            /\ operand.digits # <<>>

\* A rule of the grammar matches a line whose mnemonic is one of the rule's
\* and whose operands have the rule's shape.
RuleMatches(rule, line) ==
    /\ line.opcode \in DOMAIN Instruction
    /\ Instruction[line.opcode] = RuleOperands[rule]
    /\ Len(line.operands) = Len(RuleOperands[rule])
    /\ \A n \in 1 .. Len(line.operands) :
          ReadsAs(RuleOperands[rule][n], line.operands[n])

\* RgalParser::parse(Rule::instruction, line): the rule that matches, or a
\* parsing error.
RgalParser(line) ==
    IF \E rule \in DOMAIN RuleOperands : RuleMatches(rule, line)
    THEN Ok(CHOOSE rule \in DOMAIN RuleOperands : RuleMatches(rule, line))
    ELSE Err("ParsingError")

\* u16::from_str_radix: each digit is added with an overflow check.
RECURSIVE from_str_radix_from(_, _, _)
from_str_radix_from(digits, radix, result) ==
    IF digits = <<>> THEN Ok(result)
    ELSE IF result * radix + Head(digits) > U16_MAX THEN Err("PosOverflow")
    ELSE from_str_radix_from(Tail(digits), radix,
                             result * radix + Head(digits))

from_str_radix(digits, radix) ==
    IF digits = <<>> THEN Err("Empty")
    ELSE from_str_radix_from(digits, radix, 0)

parse_any_operand_from_pair(pair) ==
    LET number(radix) ==
            IF from_str_radix(pair.digits, radix).ok
            THEN Ok(Immediate(from_str_radix(pair.digits, radix).value))
            ELSE Err("Invalid number")
    IN  CASE pair.rule = "register" ->
                IF pair.text \in Register THEN Ok(Reg(pair.text))
                ELSE Err("Invalid register")
          [] pair.rule = "hex_number" -> number(16)
          [] pair.rule = "binary_number" -> number(2)
          [] pair.rule = "decimal_number" -> number(10)
          [] OTHER -> Err("Invalid operand")

\* The opcode tables: an operand that has to be a register is tested
\* first, then the mnemonic is looked up.
IsRegister(operand) == operand.kind = "reg"
FailedToParse == Err("Failed to parse instruction")

parse_no_operand_opcodes(opcode) ==
    IF opcode \in {"SCR", "RECV", "TXBS", "RXBS", "NOP", "WRX", "HLT", "RTS"}
    THEN Ok(Ins0(opcode))
    ELSE FailedToParse

parse_single_register_operand_opcodes(opcode, operand_value_type) ==
    IF ~IsRegister(operand_value_type)
    THEN Err("Expected single register operand")
    ELSE IF opcode \in {"POP", "RSP", "NOT", "INC", "DEC", "DPRW"}
    THEN Ok(Ins1(opcode, operand_value_type))
    ELSE FailedToParse

parse_single_value_operand_opcodes(opcode, operand_value_type) ==
    IF opcode \in {"PUSH", "DPWW", "JMP", "JPR", "JSR", "SLP"}
    THEN Ok(Ins1(opcode, operand_value_type))
    ELSE FailedToParse

parse_two_register_operand_opcodes(opcode, register_a, register_b) ==
    IF ~(IsRegister(register_a) /\ IsRegister(register_b))
    THEN Err("Expected two register operands")
    ELSE IF opcode \in {"ADD", "SUB", "MUL", "DIV", "MOD", "AND", "OR",
                        "XOR", "RCY", "RMV"}
    THEN Ok(Ins2(opcode, register_a, register_b))
    ELSE FailedToParse

parse_register_value_operand_opcodes(opcode, register, value) ==
    IF ~IsRegister(register)
    THEN Err("Expected a register and value operand")
    ELSE IF opcode \in {"PEEK", "XMIT", "LDR", "DPR", "APR"}
    THEN Ok(Ins2(opcode, register, value))
    ELSE FailedToParse

\* parse_value_register_operand_opcodes() with the operands exchanged.
parse_value_register_operands_exchanged(opcode, value, register) ==
    IF ~IsRegister(register)
    THEN Err("Expected a register and value operand")
    ELSE IF opcode \in {"BEZ", "BNZ", "BREZ", "BRNZ"}
    THEN Ok(Ins2(opcode, register, value))
    ELSE FailedToParse

parse_value_register_operand_opcodes(opcode, value, register) ==
    IF ~IsRegister(register)
    THEN Err("Expected a register and value operand")
    ELSE IF opcode \in {"BEZ", "BNZ", "BREZ", "BRNZ"}
    THEN Ok(Ins2(opcode, value, register))
    ELSE FailedToParse

parse_two_value_operand_opcodes(opcode, operand_a, operand_b) ==
    IF opcode \in {"STM", "DPW", "APW"}
    THEN Ok(Ins2(opcode, operand_a, operand_b))
    ELSE FailedToParse

parse_value_register_value_operand_opcodes(opcode, value_a, register, value_b) ==
    IF ~IsRegister(register)
    THEN Err("Expected value, register, value operands")
    ELSE IF opcode \in {"BEQ", "BNE", "BGE", "BLE", "BGT", "BLT", "BREQ",
                        "BRNE", "BRGE", "BRLE", "BRGT", "BRLT"}
    THEN Ok(Ins3(opcode, value_a, register, value_b))
    ELSE FailedToParse

parse_two_register_value_operand_opcodes(opcode, register_a, register_b, value) ==
    IF ~(IsRegister(register_a) /\ IsRegister(register_b))
    THEN Err("Expected two register operands and a value")
    ELSE IF opcode \in {"SLL", "SLC", "SLR", "SRC", "ROL", "ROR"}
    THEN Ok(Ins3(opcode, register_a, register_b, value))
    ELSE FailedToParse

parse_value_value_register_operand_opcodes(opcode, value_a, value_b, register) ==
    IF ~IsRegister(register)
    THEN Err("Expected a register and value operand")
    ELSE IF opcode \in {"STMO", "SMOI"}
    THEN Ok(Ins3(opcode, value_a, value_b, register))
    ELSE FailedToParse

parse_register_value_register_operand_opcodes(opcode, register_a, value, register_b) ==
    IF ~(IsRegister(register_a) /\ IsRegister(register_b))
    THEN Err("Expected register, value, register operands")
    ELSE IF opcode \in {"LDO", "LDOI"}
    THEN Ok(Ins3(opcode, register_a, value, register_b))
    ELSE FailedToParse

\* parse_instruction_from_pair(): the operands are parsed in order, the
\* first failure is returned, and the table of the rule builds the
\* instruction.  The rule for register, value, value hands its first two
\* operands to the table of the two-value opcodes.
parse_instruction_from_pair(rule, line) ==
    LET operand(n) == parse_any_operand_from_pair(line.operands[n])
        failed(count) == {n \in 1 .. count : ~operand(n).ok}
        first_failed(count) ==
            CHOOSE n \in failed(count) : \A m \in failed(count) : n <= m
        with(count, instruction) ==
            IF Len(line.operands) < count THEN FailedToParse
            ELSE IF failed(count) # {} THEN operand(first_failed(count))
            ELSE instruction
        v(n) == operand(n).value
        opcode == line.opcode
    IN  CASE rule = "no_operand_instruction" ->
                parse_no_operand_opcodes(opcode)
          [] rule = "one_reg_operand_instruction" ->
                with(1, parse_single_register_operand_opcodes(opcode, v(1)))
          [] rule = "one_any_operand_instruction" ->
                with(1, parse_single_value_operand_opcodes(opcode, v(1)))
          [] rule = "two_reg_reg_operand_instruction" ->
                with(2, parse_two_register_operand_opcodes(opcode, v(1),
                                                           v(2)))
          [] rule = "two_reg_any_operand_instruction" ->
                with(2, parse_register_value_operand_opcodes(opcode, v(1),
                                                             v(2)))
          [] rule = "two_any_reg_operand_instruction" ->
                with(2, parse_value_register_operand_opcodes(opcode, v(1),
                                                             v(2)))
          [] rule = "two_any_any_operand_instruction" ->
                with(2, parse_two_value_operand_opcodes(opcode, v(1), v(2)))
          [] rule = "three_reg_any_any_operand_instruction" ->
                with(3, parse_two_value_operand_opcodes(opcode, v(1), v(2)))
          [] rule = "three_any_reg_any_operand_instruction" ->
                with(3, parse_value_register_value_operand_opcodes(
                            opcode, v(1), v(2), v(3)))
          [] rule = "three_reg_reg_any_operand_instruction" ->
                with(3, parse_two_register_value_operand_opcodes(
                            opcode, v(1), v(2), v(3)))
          [] rule = "three_any_any_reg_operand_instruction" ->
                with(3, parse_value_value_register_operand_opcodes(
                            opcode, v(1), v(2), v(3)))
          [] rule = "three_reg_any_reg_operand_instruction" ->
                with(3, parse_register_value_register_operand_opcodes(
                            opcode, v(1), v(2), v(3)))

\* parse_instruction(): one line.
parse_instruction(input) ==
    IF RgalParser(input).ok
    THEN parse_instruction_from_pair(RgalParser(input).value, input)
    ELSE RgalParser(input)

\* The loop of parse_program() handing back what it has on an error.
RECURSIVE parse_program_keeping_prefix(_, _)
parse_program_keeping_prefix(lines, instructions) ==
    IF lines = <<>> THEN Ok(instructions)
    ELSE LET instruction ==
                 parse_instruction_from_pair(RgalParser(Head(lines)).value,
                                             Head(lines))
         IN  IF instruction.ok
             THEN parse_program_keeping_prefix(
                      Tail(lines), Append(instructions, instruction.value))
             ELSE Ok(instructions)

\* The loop of parse_program(): `?` returns the first error, and the
\* instructions pushed so far are dropped with the vector.
RECURSIVE parse_program_from(_, _)
parse_program_from(lines, instructions) ==
    IF lines = <<>> THEN Ok(instructions)
    ELSE LET instruction ==
                 parse_instruction_from_pair(RgalParser(Head(lines)).value,
                                             Head(lines))
         IN  IF instruction.ok
             THEN parse_program_from(Tail(lines),
                                     Append(instructions, instruction.value))
             ELSE instruction

\* parse_program(): the grammar reads the whole text, skipping blank
\* lines, before any instruction is built.
parse_program(input) ==
    LET lines == SelectSeq(input, LAMBDA line : line # BlankLine)
    IN  IF \E n \in 1 .. Len(lines) : ~RgalParser(lines[n]).ok
        THEN Err("ParsingError")
        ELSE parse_program_from(lines, <<>>)

-----------------------------------------------------------------------------
(* The programs, pin configurations and packets the model runs *)

X == Reg("X")
Y == Reg("Y")
A == Reg("A")
Imm(v) == Immediate(v)

\* Instructions that prepare a register, the stack or the pins.
Setup ==
    {Ins2("LDR", X, Imm(1)), Ins2("LDR", X, Imm(16)),
     Ins2("LDR", X, Imm(U16_MAX)), Ins2("LDR", Y, Imm(2)),
     Ins1("PUSH", Imm(7))}

StackInstructions ==
    {Ins1("PUSH", Imm(1)), Ins1("PUSH", X), Ins1("POP", X), Ins0("SCR"),
     Ins1("RSP", X), Ins2("PEEK", X, Imm(0)), Ins2("PEEK", X, Imm(1)),
     Ins2("PEEK", Y, X), Ins2("PEEK", X, Imm(17))}

NetInstructions ==
    {Ins2("XMIT", X, Imm(5)), Ins0("RECV"), Ins0("TXBS"), Ins0("RXBS"),
     Ins0("WRX")}

AluInstructions ==
    {Ins2("ADD", X, Y), Ins2("SUB", X, Y), Ins2("MUL", X, Y),
     Ins2("DIV", X, Y), Ins2("DIV", Y, X), Ins2("MOD", X, Y),
     Ins2("MOD", Y, X), Ins2("AND", X, Y), Ins2("OR", X, Y),
     Ins2("XOR", X, Y), Ins1("NOT", X), Ins1("INC", X), Ins1("DEC", X)}

ShiftInstructions ==
    {Ins3(op, Y, X, n) :
        op \in {"SLL", "SLC", "SLR", "SRC", "ROL", "ROR"},
        n \in {Imm(0), Imm(1), Imm(16), X}}

MemInstructions ==
    {Ins2("RCY", Y, X), Ins2("RMV", Y, X), Ins2("LDR", A, X),
     Ins3("LDO", Y, Imm(127), X), Ins3("LDOI", Y, Imm(0), X),
     Ins2("STM", Imm(3), X), Ins2("STM", X, Imm(9)),
     Ins3("STMO", Imm(127), Imm(9), X), Ins3("SMOI", Imm(0), X, X)}

PinInstructions ==
    {Ins2("DPW", Imm(0), Imm(1)), Ins2("DPW", Imm(1), X),
     Ins2("DPW", Imm(8), Imm(1)), Ins2("DPR", X, Imm(0)),
     Ins2("DPR", X, Imm(8)), Ins1("DPWW", Imm(165)), Ins1("DPWW", X),
     Ins1("DPRW", X), Ins2("APW", Imm(0), Imm(300)), Ins2("APW", Imm(1), X),
     Ins2("APW", Imm(4), Imm(1)), Ins2("APR", X, Imm(1)),
     Ins2("APR", X, Imm(4))}

MiscInstructions ==
    {Ins0("NOP"), Ins0("HLT"), Ins1("SLP", Imm(1)), Ins1("SLP", Imm(3))}

\* Jump targets and offsets: inside and outside the ROMs of the model.
FlowOperands == {Imm(0), Imm(1), Imm(2), Imm(100), X}

FlowInstructions ==
    {Ins1(op, t) : op \in {"JMP", "JPR", "JSR"}, t \in FlowOperands}
    \cup {Ins0("RTS")}
    \cup {Ins2(op, t, X) :
            op \in AbsZeroBranch \cup RelZeroBranch, t \in FlowOperands}
    \cup {Ins3(op, t, X, Imm(1)) :
            op \in AbsCompareBranch \cup RelCompareBranch,
            t \in {Imm(0), Imm(2)}}

Alphabet ==
    StackInstructions \cup NetInstructions \cup AluInstructions
    \cup ShiftInstructions \cup MemInstructions \cup PinInstructions
    \cup MiscInstructions \cup FlowInstructions

\* Scenario 5 of the specification: subroutine call and return.
SubroutineProgram ==
    <<Ins1("JSR", Imm(3)), Ins0("HLT"), Ins0("HLT"),
      Ins2("LDR", A, Imm(99)), Ins0("RTS")>>

\* Fills the stack, then calls a subroutine outside the ROM.
FullStackCallProgram ==
    <<Ins1("PUSH", Imm(1)), Ins1("RSP", X),
      Ins3("BNE", Imm(0), X, Imm(STACK_SIZE)), Ins1("JSR", Imm(100))>>

\* Scenario 2 of the specification and the program of main(): the blink
\* loop.  21845 = 0x5555.
BlinkProgram ==
    <<Ins2("LDR", A, Imm(10)), Ins2("LDR", X, Imm(21845)), Ins1("DPWW", X),
      Ins3("ROL", X, X, Imm(1)), Ins1("DEC", A), Ins2("BEZ", Imm(7), A),
      Ins1("JMP", Imm(2)), Ins0("HLT")>>

\* Sends NET_BUFFER_SIZE + 1 packets, numbered by X, then halts.
XmitProgram ==
    <<Ins2("XMIT", X, X), Ins1("INC", X),
      Ins3("BNE", Imm(0), X, Imm(NET_BUFFER_SIZE + 1)), Ins0("HLT")>>

\* Receives two packets, waiting for each.
ReceiveProgram == <<Ins0("WRX"), Ins0("WRX"), Ins0("HLT")>>

\* Register values for the arithmetic programs.
ArithmeticValues == {0, 3, 5, 17, 25000, U16_MAX}

\* Load two registers, then multiply or divide them.
ArithmeticPrograms ==
    {<<Ins2("LDR", X, Imm(a)), Ins2("LDR", Y, Imm(b)), Ins2(op, X, Y)>> :
        a \in ArithmeticValues, b \in ArithmeticValues,
        op \in {"MUL", "DIV", "MOD"}}

\* Words written to the digital pins: the values of test_op_dpww, and
\* words with bits above the eight pins.
PinWords == {0, 1, 85, 165, 255, 256, 21845, 43690, 65280, U16_MAX}

\* Write a word to the pins, then read the pins back.
PinWordPrograms ==
    {<<Ins1("DPWW", Imm(v)), Ins1("DPRW", X)>> : v \in PinWords}
    \cup {<<Ins2("LDR", X, Imm(v)), Ins1("DPWW", X), Ins1("DPRW", r)>> :
            v \in PinWords, r \in {X, Y}}

\* Store 55 at address 0, then store 77 at an address plus an offset and
\* load from the same address and offset into a register that holds 2.
RamPrograms ==
    {<<Ins2("STM", Imm(0), Imm(55)), Ins2("LDR", Y, Imm(2)),
       Ins2("LDR", X, Imm(offset)), Ins3(store, Imm(address), Imm(77), X),
       Ins3(load, Y, Imm(address), X)>> :
        address \in {0, 100, U16_MAX}, offset \in {1, 27, 28, U16_MAX},
        store \in {"STMO", "SMOI"}, load \in {"LDO", "LDOI"}}
    \cup {<<Ins2("LDR", Y, Imm(2)), Ins2("STM", Imm(address), Imm(77)),
             Ins3("LDO", Y, Imm(address), X)>> :
            address \in {0, RAM_SIZE - 1, RAM_SIZE, U16_MAX}}

\* Write a pin whose number is in X, then read it back into Y, which
\* holds 5.
PinPrograms ==
    {<<Ins2("LDR", X, Imm(pin)), Ins2("LDR", Y, Imm(5)),
       Ins2(ops[1], X, Imm(value)), Ins2(ops[2], Y, X)>> :
        pin \in {0, 2, 3, 4, 7, 8, 256, U16_MAX},
        value \in {0, 2, 40000},
        ops \in {<<"DPW", "DPR">>, <<"APW", "APR">>}}
    \cup {<<Ins2("LDR", Y, Imm(5)), Ins2(op, Y, Imm(pin))>> :
            op \in {"DPR", "APR"}, pin \in {4, 8, 256}}

\* Load a word, then rotate it: the words of test_op_rol and test_op_ror
\* and one without symmetry, by amounts on both sides of the word width.
RotatePrograms ==
    {<<Ins2("LDR", X, Imm(v)), Ins3(op, Y, X, Imm(n))>> :
        v \in {1, 384, 32769, 43981},
        n \in {0, 1, 4, 9, 15, 16, 17, 32, U16_MAX},
        op \in {"ROL", "ROR"}}

\* Load a word, then shift it with carry into Y.
CarryPrograms ==
    {<<Ins2("LDR", X, Imm(v)), Ins3(op, Y, X, Imm(n))>> :
        v \in {1, 384, 32769, 43981},
        n \in {0, 1, 4, 9, 15, 16, 17, U16_MAX},
        op \in {"SLC", "SRC"}}

\* Push the words of `below`, then those of `values`, pop as many words
\* as `values` has into X, Y and A in turn, and halt.
RoundTrip(below, values) ==
    [n \in 1 .. Len(below) |-> Ins1("PUSH", Imm(below[n]))]
    \o [n \in 1 .. Len(values) |-> Ins1("PUSH", Imm(values[n]))]
    \o [n \in 1 .. Len(values) |-> Ins1("POP", <<X, Y, A>>[n])]
    \o <<Ins0("HLT")>>

RoundTripBelow == {<<>>, <<99>>}
RoundTripValues ==
    UNION {[1 .. k -> {42, 7}] : k \in 1 .. 3}

\* Fill the stack to its capacity with 1 .. STACK_SIZE, then empty it.
DeepRoundTrip ==
    [n \in 1 .. STACK_SIZE |-> Ins1("PUSH", Imm(n))]
    \o [n \in 1 .. STACK_SIZE |-> Ins1("POP", X)]
    \o <<Ins0("HLT")>>

StackPrograms ==
    {RoundTrip(below, values) :
        below \in RoundTripBelow, values \in RoundTripValues}
    \cup {DeepRoundTrip}

CuratedPrograms ==
    {<<>>, SubroutineProgram, FullStackCallProgram, ReceiveProgram,
     BlinkProgram, XmitProgram,
     <<Ins1("PUSH", Imm(1)), Ins1("JMP", Imm(0))>>,
     <<Ins0("WRX"), Ins0("RECV")>>,
     <<Ins2("XMIT", X, Imm(5)), Ins1("JMP", Imm(0))>>}

Programs ==
    CuratedPrograms
    \cup ArithmeticPrograms
    \cup PinWordPrograms
    \cup RamPrograms
    \cup StackPrograms
    \cup CarryPrograms
    \cup RotatePrograms
    \cup PinPrograms
    \cup {<<i>> : i \in Alphabet}
    \cup {<<i, j>> : i \in Setup, j \in Alphabet}

\* Programs that sleep, a sleep of 0 included.
SleepPrograms ==
    {<<Ins1("SLP", Imm(0))>>,
     <<Ins1("SLP", Imm(2)), Ins0("NOP")>>, <<Ins1("SLP", X), Ins0("NOP")>>,
     <<Ins2("LDR", X, Imm(3)), Ins1("SLP", X)>>,
     <<Ins1("SLP", Imm(1)), Ins2("XMIT", X, Imm(5)), Ins0("RECV")>>}

\* Programs for the calls of step(): instructions that jump or branch to
\* their own address, that wait, that halt, that run off the end.
StepPrograms ==
    {<<>>, SubroutineProgram, ReceiveProgram,
     <<Ins1("JMP", Imm(0))>>, <<Ins1("JPR", Imm(0))>>,
     <<Ins1("JMP", X)>>, <<Ins2("BEZ", Imm(0), X)>>,
     <<Ins2("BRNZ", Imm(0), X)>>, <<Ins1("JSR", Imm(0))>>, <<Ins0("RTS")>>,
     <<Ins0("NOP"), Ins1("JMP", Imm(1))>>,
     <<Ins0("WRX"), Ins0("RECV")>>,
     <<Ins1("PUSH", Imm(1)), Ins1("JMP", Imm(0))>>,
     <<Ins2("XMIT", X, Imm(5)), Ins1("SLP", Imm(3)), Ins1("JMP", Imm(0))>>,
     <<Ins2("LDR", X, Imm(1)), Ins2("DIV", X, Y)>>,
     <<Ins2("PEEK", X, Imm(0))>>}

\* true = input, false = output
AllOutputs == [digital |-> [pin \in DigitalPin |-> FALSE],
               analog |-> [pin \in AnalogPin |-> FALSE]]
MixedPins == [digital |-> [pin \in DigitalPin |-> pin % 2 = 1],
              analog |-> [pin \in AnalogPin |-> pin % 2 = 1]]
PinConfigs == {AllOutputs, MixedPins}

\* The packets the fabric delivers.
FabricPackets == {NetPacket(2, 1, 7), NetPacket(3, 1, 9)}

\* The instructions that read the incoming queue.
ReadsIncoming(program) ==
    \E n \in 1 .. Len(program) : program[n].op \in {"RECV", "RXBS", "WRX"}

-----------------------------------------------------------------------------
(* The state machine *)

NoStep == [active |-> FALSE, old_pc |-> 0, executed |-> FALSE]
NoTiming ==
    [cycles |-> 0, ticks |-> 0, completed |-> FALSE, op |-> "-", pc |-> 0]
NoCall == [op |-> "-", was_halted |-> FALSE]
\* The parser has not been called.
NoParser == [input |-> <<>>, call |-> "-", result |-> NoResult]
\* There is no second TPU.
NoTwin == <<>>

InitWith(programs) ==
    /\ \E program \in programs, pins \in PinConfigs :
          tpu_state = new(1, pins.analog, pins.digital, program)
    /\ overflow_checks \in BOOLEAN
    /\ panicked = FALSE
    /\ execute_result = NoResult
    /\ step_call = NoStep
    /\ timing = NoTiming
    /\ fabric = 0
    /\ last_call = NoCall
    /\ parser = NoParser
    /\ twin = NoTwin

Init == InitWith(Programs)

\* The tick fetches an instruction: the TPU is running and idle.
Fetches(s) ==
    /\ ~s.halted
    /\ saturating_sub(s.wait_cycles, 1) = 0
    /\ s.decoded_opcode = None
    /\ s.program_counter < Len(s.rom)

TimingAfter(s, o) ==
    IF s.halted THEN timing
    ELSE IF Fetches(s)
    THEN [cycles |-> decode(s, s.rom[s.program_counter + 1]).cycles,
          ticks |-> 1,
          completed |-> o.res.kind # "None",
          op |-> s.rom[s.program_counter + 1].op,
          pc |-> s.program_counter]
    ELSE [timing EXCEPT !.ticks = @ + 1, !.completed = o.res.kind # "None"]

\* The body of an instruction ran in the tick with outcome o.
Executed(o) == o.res.kind \notin {"None", "Panic"}

\* One call of tick() on the TPU.
ApplyTick ==
    LET o == tick(tpu_state)
    IN  IF o.res.kind = "Panic"
        THEN /\ panicked' = TRUE
             /\ UNCHANGED <<tpu_state, execute_result, timing>>
        ELSE /\ tpu_state' = o.st
             /\ execute_result' =
                    IF o.res.kind = "None" THEN execute_result ELSE o.res
             /\ timing' = TimingAfter(tpu_state, o)
             /\ UNCHANGED panicked

\* The driver calls tick().
Tick ==
    /\ ~panicked
    /\ ~step_call.active
    /\ ApplyTick
    /\ last_call' = [op |-> "tick", was_halted |-> tpu_state.halted]
    /\ UNCHANGED <<twin, parser, overflow_checks, step_call, fabric>>

\* The driver calls step(): old_pc is latched.
StepCall ==
    /\ ~panicked
    /\ ~step_call.active
    /\ step_call' = [active |-> TRUE, old_pc |-> tpu_state.program_counter,
                      executed |-> FALSE]
    /\ last_call' = [op |-> "step", was_halted |-> tpu_state.halted]
    /\ UNCHANGED <<twin, parser, tpu_state, panicked, overflow_checks, execute_result,
                   timing, fabric>>

StepContinues ==
    /\ ~tpu_state.halted
    /\ tpu_state.program_counter = step_call.old_pc

\* One iteration of the loop of step().
StepTick ==
    /\ ~panicked
    /\ step_call.active
    /\ StepContinues
    /\ ApplyTick
    /\ step_call' = [step_call EXCEPT
                        !.executed = Executed(tick(tpu_state))]
    /\ UNCHANGED <<twin, parser, overflow_checks, fabric, last_call>>

\* The loop of step() ends and step() returns.
StepReturn ==
    /\ ~panicked
    /\ step_call.active
    /\ ~StepContinues
    /\ step_call' = NoStep
    /\ UNCHANGED <<twin, parser, tpu_state, panicked, overflow_checks, execute_result,
                   timing, fabric, last_call>>

\* The fabric appends a packet to the incoming queue, between two calls.
FabricPush ==
    /\ ~panicked
    /\ ~step_call.active
    /\ fabric < MaxFabricPushes
    /\ ReadsIncoming(tpu_state.rom)
    /\ \E packet \in FabricPackets :
          tpu_state' = [tpu_state EXCEPT
                           !.incoming_packets = Append(@, packet)]
    /\ fabric' = fabric + 1
    /\ UNCHANGED <<twin, parser, panicked, overflow_checks, execute_result, step_call,
                   timing, last_call>>

\* The fabric takes the head of the outgoing queue, between two calls.
FabricDrain ==
    /\ ~panicked
    /\ ~step_call.active
    /\ tpu_state.outgoing_packets # <<>>
    /\ tpu_state' = [tpu_state EXCEPT !.outgoing_packets = Tail(@)]
    /\ UNCHANGED <<twin, parser, panicked, overflow_checks, execute_result, step_call,
                   timing, fabric, last_call>>

Next ==
    \/ Tick
    \/ StepCall
    \/ StepTick
    \/ StepReturn
    \/ FabricPush
    \/ FabricDrain

Spec == Init /\ [][Next]_vars

\* The loop of step() runs on: a started call of step() is not suspended.
FairSpec ==
    /\ InitWith(StepPrograms)
    /\ [][Next]_vars
    /\ WF_vars(StepTick)
    /\ WF_vars(StepReturn)

\* The same machine on the programs that sleep.
SleepSpec == InitWith(SleepPrograms) /\ [][Next]_vars

-----------------------------------------------------------------------------
(* reset() applied to a running TPU *)

\* Programs that are reset while they compute, wait, send, receive or are
\* halted.
ResetPrograms ==
    {ReceiveProgram,
     <<Ins2("XMIT", X, Imm(5)), Ins1("SLP", Imm(3)), Ins1("JMP", Imm(0))>>,
     <<Ins2("LDR", X, Imm(5)), Ins2("LDR", Y, Imm(3)), Ins2("MUL", X, Y),
       Ins2("STM", Imm(3), X), Ins1("PUSH", X), Ins2("DPW", Imm(0), Imm(1)),
       Ins2("APW", Imm(0), Imm(300)), Ins0("HLT")>>}

\* The levels that the surroundings hold on the input pins.
InputLevels ==
    {[digital |-> FALSE, analog |-> 0], [digital |-> TRUE, analog |-> 700]}

\* A TPU built by new_from_state() from a fresh state whose input pins
\* hold the levels of the surroundings.
ResetInit ==
    /\ \E program \in ResetPrograms, pins \in PinConfigs,
          levels \in InputLevels :
          LET fresh == new(1, pins.analog, pins.digital, program)
          IN  tpu_state =
                  new_from_state(
                      [fresh EXCEPT
                          !.digital_pins =
                              [pin \in DigitalPin |->
                                  pins.digital[pin] /\ levels.digital],
                          !.analog_pins =
                              [pin \in AnalogPin |->
                                  IF pins.analog[pin] THEN levels.analog
                                  ELSE 0]])
    /\ overflow_checks \in BOOLEAN
    /\ panicked = FALSE
    /\ execute_result = NoResult
    /\ step_call = NoStep
    /\ timing = NoTiming
    /\ fabric = 0
    /\ last_call = NoCall
    /\ parser = NoParser
    /\ twin = NoTwin

\* reset() is called between two calls of the driver.
Reset ==
    /\ ~panicked
    /\ ~step_call.active
    /\ tpu_state' = reset(tpu_state)
    /\ last_call' = [op |-> "reset", was_halted |-> tpu_state.halted]
    /\ execute_result' = NoResult
    /\ timing' = NoTiming
    /\ UNCHANGED <<twin, parser, panicked, overflow_checks, step_call, fabric>>

ResetNext ==
    \/ Next
    \/ Reset

ResetSpec == ResetInit /\ [][ResetNext]_vars

-----------------------------------------------------------------------------
(* Two TPUs built alike and driven alike *)

\* Both TPUs are built by new() with the same address, pins and program.
TwinInit ==
    /\ \E program \in Programs, pins \in PinConfigs :
          /\ tpu_state = new(1, pins.analog, pins.digital, program)
          /\ twin = new(1, pins.analog, pins.digital, program)
    /\ overflow_checks \in BOOLEAN
    /\ panicked = FALSE
    /\ execute_result = NoResult
    /\ step_call = NoStep
    /\ timing = NoTiming
    /\ fabric = 0
    /\ last_call = NoCall
    /\ parser = NoParser

\* TwinTick in which the second TPU counts with the wait counter of the
\* first, as if the two shared it.
TwinTick_sharing_wait_counter ==
    /\ ~panicked
    /\ ApplyTick
    /\ twin' = LET shared == [twin EXCEPT
                                !.wait_cycles = tpu_state'.wait_cycles]
               IN  IF tick(shared).res.kind = "Panic" THEN twin
                   ELSE tick(shared).st
    /\ last_call' = [op |-> "tick", was_halted |-> tpu_state.halted]
    /\ UNCHANGED <<parser, overflow_checks, step_call, fabric>>

\* The driver calls tick() on the one TPU and on the other.
TwinTick ==
    /\ ~panicked
    /\ ApplyTick
    /\ twin' = IF tick(twin).res.kind = "Panic" THEN twin ELSE tick(twin).st
    /\ last_call' = [op |-> "tick", was_halted |-> tpu_state.halted]
    /\ UNCHANGED <<parser, overflow_checks, step_call, fabric>>

\* The fabric appends the same packet to the incoming queue of both.
TwinPush ==
    /\ ~panicked
    /\ fabric < MaxFabricPushes
    /\ ReadsIncoming(tpu_state.rom)
    /\ \E packet \in FabricPackets :
          /\ tpu_state' = [tpu_state EXCEPT
                              !.incoming_packets = Append(@, packet)]
          /\ twin' = [twin EXCEPT !.incoming_packets = Append(@, packet)]
    /\ fabric' = fabric + 1
    /\ UNCHANGED <<parser, panicked, overflow_checks, execute_result,
                   step_call, timing, last_call>>

\* The fabric takes the head of the outgoing queue of both.
TwinDrain ==
    /\ ~panicked
    /\ tpu_state.outgoing_packets # <<>>
    /\ tpu_state' = [tpu_state EXCEPT !.outgoing_packets = Tail(@)]
    /\ twin' = [twin EXCEPT
                   !.outgoing_packets = IF @ = <<>> THEN @ ELSE Tail(@)]
    /\ UNCHANGED <<parser, panicked, overflow_checks, execute_result,
                   step_call, timing, fabric, last_call>>

TwinNext ==
    \/ TwinTick
    \/ TwinPush
    \/ TwinDrain

TwinSpec == TwinInit /\ [][TwinNext]_vars

-----------------------------------------------------------------------------
(* The parser applied to assembly texts *)

\* Operand texts: registers, numbers in the three notations, and a
\* decimal number one above the largest 16-bit value.
OperandTexts ==
    {RegisterText("A"), RegisterText("X"),
     NumberText("decimal_number", <<4, 2>>),
     NumberText("hex_number", <<15, 15, 15, 15>>),
     NumberText("binary_number", <<1, 0, 1>>),
     NumberText("decimal_number", <<6, 5, 5, 3, 6>>)}

\* Every mnemonic, and a word that is none, with every sequence of up to
\* three operand texts.
SourceLines ==
    {SourceLine(opcode, operands) :
        opcode \in DOMAIN Instruction \cup {"FOO"},
        operands \in UNION {[1 .. n -> OperandTexts] : n \in 0 .. 3}}

\* Lines with a register the TPU does not have and with numbers too long
\* for 16 bits in hexadecimal and binary notation.
OddLines ==
    {SourceLine("POP", <<RegisterText("R7")>>),
     SourceLine("POP", <<RegisterText("R6")>>),
     SourceLine("PUSH", <<NumberText("hex_number", <<1, 0, 0, 0, 0>>)>>),
     SourceLine("PUSH", <<NumberText("binary_number",
                                     [n \in 1 .. U16_BITS + 1 |-> 1])>>),
     SourceLine("PUSH", <<NumberText("binary_number",
                                     [n \in 1 .. U16_BITS |-> 1])>>)}

\* The lines of the multi-line texts: those of test_parse_program, a blank
\* line, and lines that fail for each of the three reasons.
ProgramLines ==
    {BlankLine,
     SourceLine("PUSH", <<NumberText("decimal_number", <<4, 2>>)>>),
     SourceLine("POP", <<RegisterText("A")>>),
     SourceLine("ADD", <<RegisterText("A"), RegisterText("X")>>),
     SourceLine("HLT", <<>>),
     SourceLine("PUSH", <<NumberText("decimal_number", <<6, 5, 5, 3, 6>>)>>),
     SourceLine("POP", <<NumberText("decimal_number", <<4, 2>>)>>),
     SourceLine("FOO", <<>>)}

\* The texts given to the parser; each has a line that is not blank.
SourceTexts ==
    {text \in {<<line>> : line \in SourceLines \cup OddLines}
              \cup UNION {[1 .. n -> ProgramLines] : n \in 2 .. 3} :
        \E n \in 1 .. Len(text) : text[n] # BlankLine}

ParseInit ==
    /\ \E text \in SourceTexts :
          parser = [input |-> text, call |-> "-", result |-> NoResult]
    /\ twin = NoTwin
    /\ tpu_state = new(1, AllOutputs.analog, AllOutputs.digital, <<>>)
    /\ overflow_checks \in BOOLEAN
    /\ panicked = FALSE
    /\ execute_result = NoResult
    /\ step_call = NoStep
    /\ timing = NoTiming
    /\ fabric = 0
    /\ last_call = NoCall

\* parse_program(text)
ParseProgram ==
    /\ parser.call = "-"
    /\ parser' = [parser EXCEPT !.call = "parse_program",
                                !.result = parse_program(parser.input)]
    /\ UNCHANGED <<twin, tpu_state, panicked, overflow_checks, execute_result,
                   step_call, timing, fabric, last_call>>

\* parse_instruction(line)
ParseInstruction ==
    /\ parser.call = "-"
    /\ Len(parser.input) = 1
    /\ parser' = [parser EXCEPT !.call = "parse_instruction",
                                !.result = parse_instruction(parser.input[1])]
    /\ UNCHANGED <<twin, tpu_state, panicked, overflow_checks, execute_result,
                   step_call, timing, fabric, last_call>>

ParseNext ==
    \/ ParseProgram
    \/ ParseInstruction

\* The parser on the assembly texts.
ParseSpec == ParseInit /\ [][ParseNext]_vars

-----------------------------------------------------------------------------
(* Properties *)

\* A call of tick(), from the driver or from the loop of step().
AnyTick == Tick \/ StepTick

\* A step of the driver: tick() or a step of step().
DriverCall == Tick \/ StepCall \/ StepTick \/ StepReturn

\* C1: once halted is true, every tick() and every step() leaves the whole
\* TPU state unchanged (program counter, registers, stack, RAM, pins, both
\* queues, wait counter, in-flight instruction, halted flag) and returns.
C1_HaltedIsTerminal ==
    [][(tpu_state.halted /\ DriverCall)
         => (tpu_state' = tpu_state /\ ~panicked')]_vars

\* A halted TPU that was ticked after it had halted, with an instruction
\* that left something behind on the stack.
C1_TickedWhileHalted ==
    /\ tpu_state.halted
    /\ last_call = [op |-> "tick", was_halted |-> TRUE]
    /\ tpu_state.stack # <<>>

\* C2: in every reachable state, for every ROM the constructor accepts (the
\* empty ROM included), a TPU that is not halted has its program counter
\* inside the ROM.
C2_ProgramCounterInsideRom ==
    ~tpu_state.halted => tpu_state.program_counter < Len(tpu_state.rom)

\* C3: no tick() aborts the process, whatever the instruction and its
\* operand values.
C3_NoTickAborts == ~panicked

\* C4: the ticks spent on an instruction, from the tick that fetches it to
\* the tick that completes it, are as many as the cycles the decoder
\* returned for it.
C4_TicksEqualDecodedCycles ==
    /\ timing.ticks <= timing.cycles \/ timing = NoTiming
    /\ timing.completed => timing.ticks = timing.cycles

\* The instruction executed inside the running call of step() wrote the
\* program counter itself and wrote the value it had at the call.
JumpedToItself ==
    /\ step_call.active
    /\ step_call.executed
    /\ execute_result.kind = "PCModified"
    /\ StepContinues

Executes(ops) ==
    /\ ~tpu_state.halted
    /\ AnyTick
    /\ ~panicked'
    /\ timing'.completed
    /\ timing'.op \in ops

\* The instruction the tick being taken has executed.
ExecutedInstruction == tpu_state.rom[timing'.pc + 1]

\* C6: a subroutine entered by JSR at p and left by RTS resumes at p + 1:
\* in `JSR 3 ; HLT ; HLT ; LDR A, 99 ; RTS` the RTS returns to index 1, and
\* the program halts only there, with A = 99 and an empty stack.
C6_SubroutineResumesAfterCall ==
    tpu_state.rom = SubroutineProgram =>
        /\ (timing.op = "RTS" /\ timing.completed)
              => tpu_state.program_counter = 1
        /\ tpu_state.halted =>
              /\ tpu_state.program_counter = 1
              /\ read_register(tpu_state, "A") = 99
              /\ tpu_state.stack = <<>>

\* C7: the stack never holds more than STACK_SIZE words; PUSH on a full
\* stack halts with StackOverflow and leaves the stack as it was; PUSH on
\* a stack that is not full appends exactly the pushed word.
C7_StackBounded ==
    [][/\ Len(tpu_state'.stack) <= STACK_SIZE
       /\ Executes({"PUSH"}) =>
            IF Len(tpu_state.stack) = STACK_SIZE
            THEN /\ tpu_state'.halted
                 /\ execute_result' = Halt("StackOverflow")
                 /\ tpu_state'.stack = tpu_state.stack
            ELSE /\ ~tpu_state'.halted \/ execute_result' = PCAdvance
                 /\ tpu_state'.stack =
                       Append(tpu_state.stack,
                              get_operand_value(tpu_state,
                                                ExecutedInstruction.a))]_vars

\* A PUSH has halted the TPU on a full stack.
C7_PushOnFullStack ==
    /\ tpu_state.halted
    /\ execute_result = Halt("StackOverflow")
    /\ timing.op = "PUSH"
    /\ Len(tpu_state.stack) = STACK_SIZE

\* The instruction at the program counter of a running TPU is WRX.
AtWrx ==
    /\ ~tpu_state.halted
    /\ tpu_state.program_counter < Len(tpu_state.rom)
    /\ tpu_state.rom[tpu_state.program_counter + 1].op = "WRX"

\* C8: while the incoming queue is empty, a tick on a TPU whose current
\* instruction is WRX does not move the program counter, does not halt,
\* and changes no register, stack cell, RAM word, pin or queue.
C8_WrxWaitsOnEmptyQueue ==
    [][(AtWrx /\ tpu_state.incoming_packets = <<>> /\ AnyTick) =>
          /\ ~panicked'
          /\ tpu_state'.program_counter = tpu_state.program_counter
          /\ ~tpu_state'.halted
          /\ tpu_state'.registers = tpu_state.registers
          /\ tpu_state'.stack = tpu_state.stack
          /\ tpu_state'.ram = tpu_state.ram
          /\ tpu_state'.digital_pins = tpu_state.digital_pins
          /\ tpu_state'.analog_pins = tpu_state.analog_pins
          /\ tpu_state'.incoming_packets = tpu_state.incoming_packets
          /\ tpu_state'.outgoing_packets = tpu_state.outgoing_packets]_vars

\* C9: a WRX that completes with a packet in the incoming queue removes the
\* head packet, leaves its sender in X and its data in Y, and advances the
\* program counter by one.
C9_WrxReceivesHeadPacket ==
    [][(AtWrx /\ tpu_state.incoming_packets # <<>> /\ Executes({"WRX"})) =>
          /\ tpu_state'.incoming_packets = Tail(tpu_state.incoming_packets)
          /\ read_register(tpu_state', "X")
                = Head(tpu_state.incoming_packets).sender
          /\ read_register(tpu_state', "Y")
                = Head(tpu_state.incoming_packets).data
          /\ tpu_state'.program_counter = tpu_state.program_counter + 1]_vars

\* Whether instruction i, executed in state s, takes its jump.
Taken(s, i) ==
    CASE i.op \in {"JMP", "JPR", "JSR"} -> TRUE
      [] i.op \in AbsZeroBranch \cup RelZeroBranch ->
            Compare(i.op, read_register(s, i.b.reg), 0)
      [] i.op \in AbsCompareBranch \cup RelCompareBranch ->
            Compare(i.op, read_register(s, i.b.reg),
                    get_operand_value(s, i.c))

\* The target of the jump of instruction i, executed in state s.
Target(s, i) ==
    IF i.op \in {"JPR"} \cup RelZeroBranch \cup RelCompareBranch
    THEN s.program_counter + get_operand_value(s, i.a)
    ELSE get_operand_value(s, i.a)

\* The tick being taken executes a jump, branch or call whose taken target
\* is outside the ROM.
JumpsOutsideRom ==
    /\ Executes(FlowControl \ {"RTS"})
    /\ Taken(tpu_state, ExecutedInstruction)
    /\ Target(tpu_state, ExecutedInstruction) >= Len(tpu_state.rom)

\* The tick being taken halts with the reason and leaves the program
\* counter at the executed instruction.
HaltsInPlace(reason) ==
    /\ tpu_state'.halted
    /\ execute_result' = Halt(reason)
    /\ tpu_state'.program_counter = timing'.pc
    /\ tpu_state'.program_counter = tpu_state.program_counter

\* C10: any jump, branch or subroutine call whose taken target is outside
\* the ROM halts with InvalidPC and leaves the program counter at the
\* address of that instruction.
C10_JumpOutsideRomHaltsInvalidPC ==
    [][JumpsOutsideRom => HaltsInPlace("InvalidPC")]_vars

\* C10, amended: such a jump, branch or call halts and leaves the program
\* counter at the address of that instruction; the reason is InvalidPC,
\* except for a JSR on a full stack, which halts with StackOverflow and
\* leaves the stack as it was.
C10_JumpOutsideRomHalts ==
    [][JumpsOutsideRom =>
          IF /\ ExecutedInstruction.op = "JSR"
             /\ Len(tpu_state.stack) = STACK_SIZE
          THEN HaltsInPlace("StackOverflow")
               /\ tpu_state'.stack = tpu_state.stack
          ELSE HaltsInPlace("InvalidPC")
               /\ tpu_state'.stack = tpu_state.stack]_vars

\* A relative branch, past the first instruction, was taken to a target
\* outside the ROM and halted the TPU.
C10_RelativeBranchHalted ==
    /\ tpu_state.halted
    /\ execute_result = Halt("InvalidPC")
    /\ timing.op \in RelZeroBranch \cup RelCompareBranch
    /\ timing.pc = 1
    /\ tpu_state.program_counter = 1

RECURSIVE RotatedLeft(_, _)
\* The 16-bit word v rotated left by one bit, k times.
RotatedLeft(v, k) ==
    IF k = 0 THEN v
    ELSE RotatedLeft(((2 * v) % U16_MOD) + (v \div (U16_MOD \div 2)), k - 1)

\* The low DIGITAL_PIN_COUNT bits of a word.
LowPinBits(v) == v % (2 ^ DIGITAL_PIN_COUNT)

\* The blink loop has halted on a TPU whose digital pins are all outputs.
BlinkLoopHalted ==
    /\ tpu_state.rom = BlinkProgram
    /\ tpu_state.digital_pin_config = AllOutputs.digital
    /\ tpu_state.halted

\* C11: the blink loop, run from reset with all digital pins outputs, ends
\* halted at PC = 7 with A = 0, and the pins read back the low 8 bits of
\* 0x5555 rotated left 10 times.
C11_BlinkLoopShowsTenRotations ==
    BlinkLoopHalted =>
        /\ tpu_state.program_counter = 7
        /\ read_register(tpu_state, "A") = 0
        /\ get_digital_pins(tpu_state) = LowPinBits(RotatedLeft(21845, 10))

\* C11, amended: the blink loop ends halted at PC = 7 with A = 0 and X =
\* 0x5555 rotated left 10 times; the pins read back the low 8 bits of the
\* word of the last DPWW, which is 0x5555 rotated left 9 times; and the
\* loop does not halt anywhere else nor panic.
C11_BlinkLoopShowsNineRotations ==
    /\ BlinkLoopHalted =>
          /\ tpu_state.program_counter = 7
          /\ execute_result = Halt("HLTOpcode")
          /\ read_register(tpu_state, "A") = 0
          /\ read_register(tpu_state, "X") = RotatedLeft(21845, 10)
          /\ get_digital_pins(tpu_state) = LowPinBits(RotatedLeft(21845, 9))
    /\ tpu_state.rom = BlinkProgram => ~panicked

\* The blink loop has halted at its HLT.
C11_BlinkLoopDone == BlinkLoopHalted /\ tpu_state.program_counter = 7

\* The value of the left and of the right register operand of the
\* executed instruction, before the tick.
LeftValue == read_register(tpu_state, ExecutedInstruction.a.reg)
RightValue == read_register(tpu_state, ExecutedInstruction.b.reg)

\* The tick being taken completes the instruction without halting, with
\* value in the accumulator, and moves to the next instruction.
WritesAccumulator(value) ==
    /\ execute_result' = PCAdvance
    /\ read_register(tpu_state', "A") = value
    /\ tpu_state'.program_counter = tpu_state.program_counter + 1

\* C12: DIV and MOD with a zero divisor halt with Div0 and leave A and the
\* program counter unchanged; with a divisor b # 0, DIV writes the quotient
\* a / b into A and MOD writes a mod b into A.
C12_DivMod ==
    [][Executes({"DIV", "MOD"}) =>
          IF RightValue = 0
          THEN /\ HaltsInPlace("Div0")
               /\ tpu_state'.registers = tpu_state.registers
          ELSE IF ExecutedInstruction.op = "DIV"
          THEN WritesAccumulator(LeftValue \div RightValue)
          ELSE WritesAccumulator(LeftValue % RightValue)]_vars

\* A DIV of a non-zero value by zero has halted the TPU.
C12_DividedByZero ==
    /\ tpu_state.halted
    /\ execute_result = Halt("Div0")
    /\ timing.op = "DIV"
    /\ read_register(tpu_state, "X") = 25000
    /\ read_register(tpu_state, "Y") = 0

\* C13: MUL writes (a * b) mod 2^16 into the accumulator A, for all values
\* a and b of its two registers.
C13_MulWritesProduct ==
    [][Executes({"MUL"}) =>
          WritesAccumulator((LeftValue * RightValue) % U16_MOD)]_vars

\* C14: the outgoing queue never holds more than NET_BUFFER_SIZE packets;
\* XMIT on a queue that is not full appends exactly the packet {sender =
\* the network address, target = the target register, data = the operand}
\* at the tail; XMIT on a full queue leaves the queue unchanged; in both
\* cases XMIT does not halt and advances the program counter.
C14_OutgoingQueueBounded ==
    [][/\ Len(tpu_state'.outgoing_packets) <= NET_BUFFER_SIZE
       /\ Executes({"XMIT"}) =>
            /\ execute_result' = PCAdvance
            /\ tpu_state'.program_counter = tpu_state.program_counter + 1
            /\ tpu_state'.outgoing_packets =
                  IF Len(tpu_state.outgoing_packets) < NET_BUFFER_SIZE
                  THEN Append(tpu_state.outgoing_packets,
                              NetPacket(tpu_state.network_address,
                                        LeftValue,
                                        get_operand_value(
                                            tpu_state,
                                            ExecutedInstruction.b)))
                  ELSE tpu_state.outgoing_packets]_vars

\* NET_BUFFER_SIZE + 1 packets were sent and none was drained: the queue
\* holds the first NET_BUFFER_SIZE of them and the last one was dropped.
C14_NinthPacketDropped ==
    /\ tpu_state.rom = XmitProgram
    /\ tpu_state.halted
    /\ read_register(tpu_state, "X") = NET_BUFFER_SIZE + 1
    /\ Len(tpu_state.outgoing_packets) = NET_BUFFER_SIZE
    /\ \A k \in 1 .. NET_BUFFER_SIZE :
          tpu_state.outgoing_packets[k] =
              NetPacket(tpu_state.network_address, k - 1, k - 1)

\* The tick being taken delivers the head of the incoming queue: sender
\* into X, data into Y, and exactly that packet removed.
DeliversHeadPacket ==
    /\ read_register(tpu_state', "X") = Head(tpu_state.incoming_packets).sender
    /\ read_register(tpu_state', "Y") = Head(tpu_state.incoming_packets).data
    /\ tpu_state'.incoming_packets = Tail(tpu_state.incoming_packets)

\* The tick being taken delivers the default packet of an empty queue.
DeliversDefaultPacket ==
    /\ execute_result' = PCAdvance
    /\ read_register(tpu_state', "X") = 0
    /\ read_register(tpu_state', "Y") = 0
    /\ tpu_state'.incoming_packets = <<>>

\* The fabric's step appends one packet at the tail of the incoming queue.
PushesAtTail ==
    \E packet \in FabricPackets :
        tpu_state'.incoming_packets =
            Append(tpu_state.incoming_packets, packet)

\* C15: with the fabric pushing packets between ticks, packets are consumed
\* in FIFO order, none lost or duplicated: the fabric appends at the tail,
\* every completed RECV or WRX that finds the queue non-empty delivers and
\* removes its head, and a RECV on an empty queue writes X = 0 and Y = 0,
\* does not halt and leaves the queue empty.
C15_IncomingQueueIsFifo ==
    [][/\ FabricPush => PushesAtTail
       /\ (Executes({"RECV", "WRX"}) /\ tpu_state.incoming_packets # <<>>)
             => DeliversHeadPacket
       /\ (Executes({"RECV"}) /\ tpu_state.incoming_packets = <<>>)
             => DeliversDefaultPacket]_vars

\* The instruction at the program counter of a running TPU: the one in
\* flight, or the one the next tick fetches.
CurrentInstruction == tpu_state.rom[tpu_state.program_counter + 1]
AtInstruction(ops) ==
    /\ ~tpu_state.halted
    /\ tpu_state.program_counter < Len(tpu_state.rom)
    /\ CurrentInstruction.op \in ops

\* n + surcharge for the SLP at the program counter: surcharge 0 for an
\* immediate, 1 for a register.
SleepDelay ==
    get_operand_value(tpu_state, CurrentInstruction.a)
        + (IF CurrentInstruction.a.kind = "reg" THEN 1 ELSE 0)

\* C16: SLP n delays exactly n + surcharge ticks before the program counter
\* advances, for every n given as an immediate (surcharge 0) or in a
\* register (surcharge 1), and no register, stack cell, RAM word, pin or
\* queue changes during the sleep.
C16_SleepDelaysExactly ==
    [][(AtInstruction({"SLP"}) /\ AnyTick) =>
          /\ ~panicked'
          /\ timing'.ticks <= SleepDelay
          /\ (tpu_state'.program_counter # tpu_state.program_counter)
                = (timing'.ticks = SleepDelay)
          /\ tpu_state'.registers = tpu_state.registers
          /\ tpu_state'.stack = tpu_state.stack
          /\ tpu_state'.ram = tpu_state.ram
          /\ tpu_state'.digital_pins = tpu_state.digital_pins
          /\ tpu_state'.analog_pins = tpu_state.analog_pins
          /\ tpu_state'.incoming_packets = tpu_state.incoming_packets
          /\ tpu_state'.outgoing_packets = tpu_state.outgoing_packets]_vars

\* Every instruction of the program decodes to a single cycle.
SingleCycleProgram ==
    \A k \in 1 .. Len(tpu_state.rom) :
        decode(tpu_state, tpu_state.rom[k]).cycles = 1

\* A tick on a running TPU whose program is single-cycle.
SingleCycleTick == SingleCycleProgram /\ ~tpu_state.halted /\ AnyTick

\* The tick being taken has fetched and executed the instruction at the
\* program counter.
ExecutesOneInstruction ==
    /\ timing'.completed
    /\ timing'.ticks = 1
    /\ timing'.pc = tpu_state.program_counter

Advances ==
    /\ execute_result' = PCAdvance
    /\ tpu_state'.program_counter = tpu_state.program_counter + 1

\* The first operand of the executed instruction, as a pin number.
PinOperand == get_operand_value(tpu_state, ExecutedInstruction.a)

\* Bit `pin` of a word.
BitOf(word, pin) == (word \div (2 ^ pin)) % 2 = 1

\* C18: DPW on an input-configured digital pin and APW on an
\* input-configured analog pin leave every pin value unchanged, do not
\* halt and advance the program counter; DPWW sets exactly the
\* output-configured pins to their bits of the word, leaves the
\* input-configured pins unchanged, does not halt and advances.
C18_InputPinsAreNotWritten ==
    [][/\ (/\ Executes({"DPW"})
           /\ PinOperand \in DigitalPin
           /\ tpu_state.digital_pin_config[PinOperand])
          => /\ Advances
             /\ tpu_state'.digital_pins = tpu_state.digital_pins
             /\ tpu_state'.analog_pins = tpu_state.analog_pins
       /\ (/\ Executes({"APW"})
           /\ PinOperand \in AnalogPin
           /\ tpu_state.analog_pin_config[PinOperand])
          => /\ Advances
             /\ tpu_state'.digital_pins = tpu_state.digital_pins
             /\ tpu_state'.analog_pins = tpu_state.analog_pins
       /\ Executes({"DPWW"})
          => /\ Advances
             /\ tpu_state'.analog_pins = tpu_state.analog_pins
             /\ \A pin \in DigitalPin :
                   tpu_state'.digital_pins[pin] =
                       IF tpu_state.digital_pin_config[pin]
                       THEN tpu_state.digital_pins[pin]
                       ELSE BitOf(PinOperand, pin)]_vars

\* DPW has written a non-zero value to an input-configured pin, after a
\* load of the value, and the pins are all still low.
C18_WroteToInputPin ==
    /\ tpu_state.rom = <<Ins2("LDR", X, Imm(1)), Ins2("DPW", Imm(1), X)>>
    /\ tpu_state.digital_pin_config[1]
    /\ timing.op = "DPW"
    /\ timing.completed
    /\ execute_result = PCAdvance
    /\ get_digital_pins(tpu_state) = 0

\* The executed instruction follows a DPWW in a straight-line program,
\* so that the DPWW was the instruction executed before it.
FollowsDpww ==
    /\ tpu_state.rom \in PinWordPrograms
    /\ timing'.pc > 0
    /\ tpu_state.rom[timing'.pc].op = "DPWW"

\* The word that DPWW wrote; no instruction in between has changed its
\* operand.
WrittenWord == get_operand_value(tpu_state, tpu_state.rom[timing'.pc].a)

\* C19: with all eight digital pins configured as outputs, DPWW v followed
\* by DPRW r leaves r = v & 0xFF, and pin i holds bit i of v.
C19_PinWordRoundTrip ==
    [][(/\ Executes({"DPRW"})
        /\ FollowsDpww
        /\ tpu_state.digital_pin_config = AllOutputs.digital)
       => /\ read_register(tpu_state', ExecutedInstruction.a.reg)
                 = WrittenWord % (2 ^ DIGITAL_PIN_COUNT)
          /\ \A pin \in DigitalPin :
                tpu_state'.digital_pins[pin] = BitOf(WrittenWord, pin)]_vars

\* The word 0xAAAA went from a register to the output pins and the pins
\* were read back as 0xAA.
C19_ReadBackLowByte ==
    /\ tpu_state.rom = <<Ins2("LDR", X, Imm(43690)), Ins1("DPWW", X),
                         Ins1("DPRW", Y)>>
    /\ tpu_state.digital_pin_config = AllOutputs.digital
    /\ timing.op = "DPRW"
    /\ timing.completed
    /\ read_register(tpu_state, "X") = 43690
    /\ read_register(tpu_state, "Y") = 170

\* The address that the executed JSR calls.
CallTarget == get_operand_value(tpu_state, ExecutedInstruction.a)

\* C20: JSR on a stack of STACK_SIZE words halts with StackOverflow, also
\* when its target is outside the ROM, and leaves the program counter and
\* the stack as they were; otherwise a JSR to a target outside the ROM
\* halts with InvalidPC, pushes nothing and leaves the program counter;
\* otherwise JSR pushes the address of the JSR instruction and sets the
\* program counter to the target. The registers are unchanged in all
\* three cases.
C20_JsrChecksStackThenTarget ==
    [][Executes({"JSR"}) =>
          /\ tpu_state'.registers = tpu_state.registers
          /\ IF Len(tpu_state.stack) = STACK_SIZE
             THEN /\ HaltsInPlace("StackOverflow")
                  /\ tpu_state'.stack = tpu_state.stack
             ELSE IF CallTarget >= Len(tpu_state.rom)
             THEN /\ HaltsInPlace("InvalidPC")
                  /\ tpu_state'.stack = tpu_state.stack
             ELSE /\ execute_result' = PCModified
                  /\ ~tpu_state'.halted
                  /\ tpu_state'.stack = Append(tpu_state.stack, timing'.pc)
                  /\ tpu_state'.program_counter = CallTarget]_vars

\* A JSR to an address outside the ROM was executed on a full stack and
\* halted with StackOverflow.
C20_CallOnFullStackOutsideRom ==
    /\ tpu_state.rom = FullStackCallProgram
    /\ tpu_state.halted
    /\ execute_result = Halt("StackOverflow")
    /\ timing.op = "JSR"
    /\ tpu_state.program_counter = 3
    /\ Len(tpu_state.stack) = STACK_SIZE

\* The top word of the stack before the tick, and the words under it.
TopWord == tpu_state.stack[Len(tpu_state.stack)]
WordsUnderTop == SubSeq(tpu_state.stack, 1, Len(tpu_state.stack) - 1)

\* POP writes `value` to its register, changes no other register and
\* moves to the next instruction.
PopsValue(value) ==
    /\ Advances
    /\ tpu_state'.registers =
           [tpu_state.registers EXCEPT ![ExecutedInstruction.a.reg] = value]

\* RTS continues at `address` without halting.
ReturnsTo(address) ==
    /\ execute_result' = PCModified
    /\ ~tpu_state'.halted
    /\ tpu_state'.program_counter = address
    /\ tpu_state'.registers = tpu_state.registers

\* POP and RTS on an empty stack: POP writes 0, RTS continues at address
\* 0, the stack stays empty and the TPU does not halt.
EmptyStackYieldsZero ==
    /\ (Executes({"POP"}) /\ tpu_state.stack = <<>>)
       => PopsValue(0) /\ tpu_state'.stack = <<>>
    /\ (Executes({"RTS"}) /\ tpu_state.stack = <<>>)
       => ReturnsTo(0) /\ tpu_state'.stack = <<>>

\* C21: POP and RTS on an empty stack do not halt, POP r writes 0 into r
\* and RTS sets PC = 0, the stack staying empty; on a non-empty stack each
\* removes exactly the top word, POP writing it to r and RTS setting PC to
\* it.
C21_PopAndRtsUseTopWord ==
    [][/\ EmptyStackYieldsZero
       /\ (Executes({"POP"}) /\ tpu_state.stack # <<>>)
          => PopsValue(TopWord) /\ tpu_state'.stack = WordsUnderTop
       /\ (Executes({"RTS"}) /\ tpu_state.stack # <<>>)
          => ReturnsTo(TopWord) /\ tpu_state'.stack = WordsUnderTop]_vars

\* C21, amended: as above, except that RTS sets PC to the top word only
\* when that word is an address inside the ROM; otherwise it halts with
\* InvalidPC and leaves PC at the RTS, the top word being removed from the
\* stack all the same.
C21_RtsReturnsInsideRom ==
    [][/\ EmptyStackYieldsZero
       /\ (Executes({"POP"}) /\ tpu_state.stack # <<>>)
          => PopsValue(TopWord) /\ tpu_state'.stack = WordsUnderTop
       /\ (Executes({"RTS"}) /\ tpu_state.stack # <<>>)
          => /\ tpu_state'.stack = WordsUnderTop
             /\ IF TopWord < Len(tpu_state.rom)
                THEN ReturnsTo(TopWord)
                ELSE /\ HaltsInPlace("InvalidPC")
                     /\ tpu_state'.registers = tpu_state.registers]_vars

\* RTS, as the second instruction of a program that pushes nothing, has
\* run on the empty stack and continued at address 0.
C21_ReturnedOnEmptyStack ==
    /\ tpu_state.rom = <<Ins2("LDR", X, Imm(1)), Ins0("RTS")>>
    /\ timing.op = "RTS"
    /\ timing.pc = 1
    /\ timing.completed
    /\ execute_result = PCModified
    /\ tpu_state.program_counter = 0
    /\ tpu_state.stack = <<>>
    /\ ~tpu_state.halted

\* The number that digits denote in a radix.
RECURSIVE NumberOf(_, _)
NumberOf(digits, radix) ==
    IF digits = <<>> THEN 0
    ELSE NumberOf(SubSeq(digits, 1, Len(digits) - 1), radix) * radix
         + digits[Len(digits)]

Radix(rule) ==
    CASE rule = "hex_number" -> 16
      [] rule = "binary_number" -> 2
      [] rule = "decimal_number" -> 10

IsRegisterText(operand) ==
    operand.rule = "register" /\ operand.text \in Register

\* The operand text is a number in one of the three notations.
IsNumberText(operand) ==
    operand.rule \in {"decimal_number", "hex_number", "binary_number"}

\* The operands of the line have the shape declared for its mnemonic.
HasDeclaredShape(line) ==
    /\ line.opcode \in DOMAIN Instruction
    /\ Len(line.operands) = Len(Instruction[line.opcode])
    /\ \A n \in 1 .. Len(line.operands) :
          \/ IsRegisterText(line.operands[n])
          \/ Instruction[line.opcode][n] = "v" /\ IsNumberText(line.operands[n])

\* Every number of the line fits in 16 bits.
NumbersFit(line) ==
    \A n \in 1 .. Len(line.operands) :
        IsNumberText(line.operands[n])
        => NumberOf(line.operands[n].digits, Radix(line.operands[n].rule))
               <= U16_MAX

\* The operand that an operand text denotes.
OperandOf(operand) ==
    IF IsRegisterText(operand) THEN Reg(operand.text)
    ELSE Immediate(NumberOf(operand.digits, Radix(operand.rule)))

\* The instruction that a well-formed line denotes.
InstructionOf(line) ==
    LET operand(n) == IF n <= Len(line.operands)
                      THEN OperandOf(line.operands[n]) ELSE NoOperand
    IN  Ins3(line.opcode, operand(1), operand(2), operand(3))

NonBlankLines(text) == SelectSeq(text, LAMBDA line : line # BlankLine)

\* C22: parse_program returns either the instruction of every non-blank
\* line, in source order, or an error that carries no instructions; it
\* returns an error as soon as one line has an unknown mnemonic, operands
\* of another shape than its mnemonic's, or a number that does not fit in
\* 16 bits.
C22_ParsingIsAllOrNothing ==
    parser.call = "parse_program" =>
        LET lines == NonBlankLines(parser.input)
        IN  IF \A n \in 1 .. Len(lines) :
                   HasDeclaredShape(lines[n]) /\ NumbersFit(lines[n])
            THEN parser.result =
                     Ok([n \in 1 .. Len(lines) |-> InstructionOf(lines[n])])
            ELSE /\ ~parser.result.ok
                 /\ "value" \notin DOMAIN parser.result

\* A text whose first line is an instruction and whose last line has a
\* number too large for 16 bits was refused.
C22_RefusedAfterGoodLine ==
    /\ parser.call = "parse_program"
    /\ parser.input =
           <<SourceLine("PUSH", <<NumberText("decimal_number", <<4, 2>>)>>),
             BlankLine,
             SourceLine("PUSH",
                        <<NumberText("decimal_number", <<6, 5, 5, 3, 6>>)>>)>>
    /\ ~parser.result.ok

WaitsForInstruction ==
    /\ ~tpu_state.halted
    /\ tpu_state.decoded_opcode # None
    /\ ~tpu_state.decoded_opcode[1].call_every_cycle

\* C24: while a multi-cycle instruction that is not called every cycle is
\* in flight, a tick that leaves the wait counter above 0 changes nothing
\* but the wait counter, which it decrements; the tick that takes the
\* counter to 0 runs the body, once, and leaves no instruction in flight.
C24_WaitTicksOnlyCountDown ==
    [][(AnyTick /\ ~panicked' /\ WaitsForInstruction) =>
          IF tpu_state.wait_cycles > 1
          THEN /\ tpu_state' = [tpu_state EXCEPT !.wait_cycles = @ - 1]
               /\ execute_result' = execute_result
               /\ ~timing'.completed
          ELSE /\ timing'.completed
               /\ execute_result' \in
                      {PCAdvance} \cup {Halt(reason) : reason \in
                          {"Div0", "StackOverflow", "IndexOutOfRange"}}
               /\ tpu_state'.decoded_opcode = None
               /\ tpu_state'.wait_cycles = 0]_vars

\* MUL X, Y is in its third of four cycles and the registers still hold
\* the operands.
C24_MultiplyInFlight ==
    /\ WaitsForInstruction
    /\ timing.op = "MUL"
    /\ timing.ticks = 3
    /\ tpu_state.wait_cycles = 1
    /\ read_register(tpu_state, "X") = 5
    /\ read_register(tpu_state, "Y") = 3
    /\ read_register(tpu_state, "A") = 0

\* The instruction whose body the next tick runs: the one in flight, or
\* the one at the program counter.
DueInstruction ==
    IF tpu_state.decoded_opcode # None
    THEN tpu_state.decoded_opcode[1].instruction
    ELSE CurrentInstruction

\* The tick that is being taken is the one that runs the body of an
\* instruction op, whether the body returns or aborts.
Due(ops) ==
    /\ ~tpu_state.halted
    /\ AnyTick
    /\ \/ /\ tpu_state.decoded_opcode # None
          /\ tpu_state.wait_cycles <= 1
       \/ /\ Fetches(tpu_state)
          /\ decode(tpu_state, CurrentInstruction).cycles = 1
    /\ DueInstruction.op \in ops

\* C25: PEEK r, i copies the stack word at position i into r and leaves
\* the stack unchanged when the stack has a word at position i, and
\* otherwise (i equal to the depth included) halts with IndexOutOfRange
\* and leaves r unchanged; it never aborts on a position that does not
\* exist.
C25_PeekCopiesOrHalts ==
    [][Due({"PEEK"}) =>
          LET index == get_operand_value(tpu_state, DueInstruction.b)
          IN  /\ ~panicked'
              /\ tpu_state'.stack = tpu_state.stack
              /\ IF index < Len(tpu_state.stack)
                 THEN /\ execute_result' = PCAdvance
                      /\ tpu_state'.registers =
                             [tpu_state.registers
                                 EXCEPT ![DueInstruction.a.reg] =
                                            tpu_state.stack[index + 1]]
                 ELSE /\ execute_result' = Halt("IndexOutOfRange")
                      /\ tpu_state'.halted
                      /\ tpu_state'.registers = tpu_state.registers]_vars

\* The address that the executed memory instruction accesses: its address
\* operand, plus the offset register for the forms with an offset, as a
\* number that is not reduced to 16 bits.
EffectiveAddress ==
    LET i == ExecutedInstruction
    IN  CASE i.op = "STM" -> get_operand_value(tpu_state, i.a)
          [] i.op \in {"STMO", "SMOI"} ->
                get_operand_value(tpu_state, i.a)
                + read_register(tpu_state, i.c.reg)
          [] i.op \in {"LDO", "LDOI"} ->
                get_operand_value(tpu_state, i.b)
                + read_register(tpu_state, i.c.reg)

\* C26: STM, STMO and SMOI with an effective address of RAM_SIZE or more
\* leave every word of RAM unchanged and below RAM_SIZE write exactly the
\* addressed word; LDO and LDOI load 0 from an effective address of
\* RAM_SIZE or more and the addressed word below it, leaving RAM
\* unchanged; none of them halts.  The effective address of the forms
\* with an offset is address + offset without 16-bit wraparound.
C26_RamAccessIsClamped ==
    [][/\ Executes({"STM", "STMO", "SMOI"})
          => /\ Advances
             /\ tpu_state'.ram =
                    IF EffectiveAddress >= RAM_SIZE THEN tpu_state.ram
                    ELSE [tpu_state.ram EXCEPT ![EffectiveAddress] =
                             get_operand_value(tpu_state,
                                               ExecutedInstruction.b)]
       /\ (/\ Executes({"LDO", "LDOI"})
           /\ ExecutedInstruction.a # ExecutedInstruction.c)
          => /\ Advances
             /\ tpu_state'.ram = tpu_state.ram
             /\ read_register(tpu_state', ExecutedInstruction.a.reg) =
                    IF EffectiveAddress >= RAM_SIZE THEN 0
                    ELSE tpu_state.ram[EffectiveAddress]]_vars

\* A load from address 65535 plus offset 1 has written 0 over the 2 in Y,
\* while address 0 holds 55.
C26_LoadedPastSixteenBits ==
    /\ timing.op = "LDO"
    /\ timing.completed
    /\ Len(tpu_state.rom) = 5
    /\ tpu_state.rom[5] = Ins3("LDO", Y, Imm(U16_MAX), X)
    /\ tpu_state.rom[4].op = "STMO"
    /\ read_register(tpu_state, "X") = 1
    /\ read_register(tpu_state, "Y") = 0
    /\ tpu_state.ram[0] = 55

\* Neither a pin nor a register changes.
PinsAndRegistersKept ==
    /\ tpu_state'.digital_pins = tpu_state.digital_pins
    /\ tpu_state'.analog_pins = tpu_state.analog_pins
    /\ tpu_state'.registers = tpu_state.registers

\* The pin number of the executed pin instruction: the first operand of a
\* write, the second of a read.
PinNumber ==
    IF ExecutedInstruction.op \in {"DPW", "APW"}
    THEN get_operand_value(tpu_state, ExecutedInstruction.a)
    ELSE get_operand_value(tpu_state, ExecutedInstruction.b)

\* C27: DPW and DPR with a pin number of 8 or more, and APW and APR with a
\* pin number of 4 or more, halt with IndexOutOfRange and change no pin
\* and no register; with a valid pin number DPR writes 1 or 0, the state
\* of the pin, and APR the whole 16-bit value of the pin into the target
\* register, and neither halts.
C27_PinNumbersAreChecked ==
    [][/\ (/\ Executes({"DPW", "DPR"})
           /\ PinNumber >= DIGITAL_PIN_COUNT)
          => /\ HaltsInPlace("IndexOutOfRange")
             /\ PinsAndRegistersKept
       /\ (/\ Executes({"APW", "APR"})
           /\ PinNumber >= ANALOG_PIN_COUNT)
          => /\ HaltsInPlace("IndexOutOfRange")
             /\ PinsAndRegistersKept
       /\ (/\ Executes({"DPR"})
           /\ PinNumber < DIGITAL_PIN_COUNT)
          => /\ Advances
             /\ tpu_state'.registers =
                    [tpu_state.registers
                        EXCEPT ![ExecutedInstruction.a.reg] =
                            IF tpu_state.digital_pins[PinNumber]
                            THEN 1 ELSE 0]
       /\ (/\ Executes({"APR"})
           /\ PinNumber < ANALOG_PIN_COUNT)
          => /\ Advances
             /\ tpu_state'.registers =
                    [tpu_state.registers
                        EXCEPT ![ExecutedInstruction.a.reg] =
                            tpu_state.analog_pins[PinNumber]]]_vars

\* A write to pin 256 has halted the program with IndexOutOfRange, every
\* digital pin still low.
C27_HaltedOnPin256 ==
    /\ timing.op = "DPW"
    /\ timing.completed
    /\ read_register(tpu_state, "X") = 256
    /\ execute_result = Halt("IndexOutOfRange")
    /\ tpu_state.halted
    /\ \A pin \in DigitalPin : ~tpu_state.digital_pins[pin]

\* A tick that fetches and decodes the instruction at the program counter.
FetchTick == AnyTick /\ Fetches(tpu_state)

\* The operands of an instruction that may be a register or an immediate
\* and are a register.
RegisterAnyOperands(i) ==
    {n \in 1 .. Len(Instruction[i.op]) :
        /\ Instruction[i.op][n] = "v"
        /\ <<i.a, i.b, i.c>>[n].kind = "reg"}

\* The instruction with an immediate in place of each such register.
WithImmediates(i) ==
    [i EXCEPT !.a = IF 1 \in RegisterAnyOperands(i) THEN Imm(0) ELSE @,
              !.b = IF 2 \in RegisterAnyOperands(i) THEN Imm(0) ELSE @,
              !.c = IF 3 \in RegisterAnyOperands(i) THEN Imm(0) ELSE @]

\* The instructions whose cost depends on the kind of an operand (SLP,
\* whose cost is its delay, apart).
Surcharged ==
    {"PUSH", "PEEK", "SLL", "SLC", "SLR", "SRC", "ROL", "ROR", "LDR", "LDO",
     "LDOI", "STM", "STMO", "SMOI", "DPW", "APW", "DPR", "APR", "DPWW",
     "JMP", "JPR", "JSR"}

\* C28: the decoder gives NOP, HLT, DPRW and RSP 1 cycle, AND, OR, XOR,
\* NOT and every conditional branch 3, MUL 4, DIV and MOD 6, RTS 2, JSR 4
\* plus 1 for a register operand, and an instruction with a surcharge one
\* cycle more than its all-immediate form for each operand that may be an
\* immediate and is a register.
C28_DecoderFollowsCostTable ==
    [][FetchTick =>
          LET i == CurrentInstruction
              cycles == decode(tpu_state, i).cycles
          IN  /\ i.op \in {"NOP", "HLT", "DPRW", "RSP"} => cycles = 1
              /\ i.op \in {"AND", "OR", "XOR", "NOT"} \cup Branch => cycles = 3
              /\ i.op = "MUL" => cycles = 4
              /\ i.op \in {"DIV", "MOD"} => cycles = 6
              /\ i.op = "RTS" => cycles = 2
              /\ i.op = "JSR"
                    => cycles = 4 + (IF i.a.kind = "reg" THEN 1 ELSE 0)
              /\ i.op \in Surcharged
                    => cycles = decode(tpu_state, WithImmediates(i)).cycles
                                + Cardinality(RegisterAnyOperands(i))]_vars

\* An instruction is in flight and marked to be called on every cycle.
CalledEveryCycle ==
    /\ tpu_state.decoded_opcode # None
    /\ tpu_state.decoded_opcode[1].call_every_cycle

\* C29: an instruction in flight that is marked to be called on every
\* cycle is a jump, a branch, JSR, RTS or WRX; no arithmetic, memory,
\* stack or I/O instruction is ever in flight with the mark.
C29_OnlyFlowControlIsCalledEveryCycle ==
    CalledEveryCycle =>
        tpu_state.decoded_opcode[1].instruction.op
            \in FlowControl \cup {"WRX"}

\* A conditional branch is in flight, marked, with cycles still to wait.
C29_BranchInFlight ==
    /\ CalledEveryCycle
    /\ tpu_state.decoded_opcode[1].instruction.op \in Branch
    /\ tpu_state.wait_cycles > 0
    /\ ~tpu_state.halted

\* ROL and ROR of the due rotate's source register by n into its target
\* register, on the present state.
RolBy(n) == op_rol(tpu_state, DueInstruction.a, DueInstruction.b, Imm(n))
RorBy(n) == op_ror(tpu_state, DueInstruction.a, DueInstruction.b, Imm(n))

\* C30: for every word v and every n, ROL(v, n) = ROR(v, 16 - (n mod 16))
\* when n mod 16 is not 0, and ROL(v, n) = ROR(v, n) = v when it is 0;
\* both rotate by n mod 16 and write only the target register.
C30_RotatesAreInverse ==
    [][Due({"ROL", "ROR"}) =>
          LET n == get_operand_value(tpu_state, DueInstruction.c)
              v == read_register(tpu_state, DueInstruction.b.reg)
              target == DueInstruction.a.reg
              unchanged == Done(write_register(tpu_state, target, v),
                                PCAdvance)
          IN  /\ IF n % U16_BITS # 0
                 THEN RolBy(n) = RorBy(U16_BITS - (n % U16_BITS))
                 ELSE RolBy(n) = unchanged /\ RorBy(n) = unchanged
              /\ ~panicked'
              /\ tpu_state'.registers =
                     [tpu_state.registers EXCEPT ![target] =
                         IF DueInstruction.op = "ROL"
                         THEN RotatedLeft(v, n % U16_BITS)
                         ELSE RotatedLeft(v, (U16_BITS - (n % U16_BITS))
                                             % U16_BITS)]]_vars

\* C31: SLC and SRC with a target register other than A: for 0 < n < 16
\* the target holds the shifted value and A the bits shifted out, so that
\* target OR A is the source rotated by n (left for SLC, right for SRC)
\* and target AND A is 0; for n = 0, A is 0 and the target equals the
\* source; for n >= 16, A equals the source.
C31_CarryHoldsShiftedOutBits ==
    [][(Due({"SLC", "SRC"}) /\ DueInstruction.a.reg # "A") =>
          LET n == get_operand_value(tpu_state, DueInstruction.c)
              v == read_register(tpu_state, DueInstruction.b.reg)
              target == read_register(tpu_state', DueInstruction.a.reg)
              carry == read_register(tpu_state', "A")
              left == DueInstruction.op = "SLC"
          IN  /\ ~panicked'
              /\ (n > 0 /\ n < U16_BITS)
                    => /\ target = IF left THEN (v * (2 ^ n)) % U16_MOD
                                   ELSE v \div (2 ^ n)
                       /\ BitOr(target, carry) =
                              RotatedLeft(v, IF left THEN n ELSE U16_BITS - n)
                       /\ BitAnd(target, carry) = 0
              /\ n = 0 => carry = 0 /\ target = v
              /\ n >= U16_BITS => carry = v]_vars

\* The HLT of a round trip leaves the words of `values` in X, Y and A in
\* reverse order and the stack as it was before they were pushed.
RoundTripEnds(below, values) ==
    /\ tpu_state'.halted
    /\ tpu_state'.stack = below
    /\ \A n \in 1 .. Len(values) :
          read_register(tpu_state', <<"X", "Y", "A">>[n])
              = values[Len(values) + 1 - n]

\* C32: the stack is LIFO.  A PUSH on a stack that is not full puts its
\* word on top, a POP on a stack that is not empty removes the top word
\* and writes it into its register; so the POPs after a sequence of PUSHes
\* return the words in reverse order and restore the depth:
\* `PUSH 42 ; PUSH 7 ; POP X ; POP Y ; HLT` ends with X = 7, Y = 42, depth
\* 0 and halted.
C32_StackIsLifo ==
    [][/\ (Executes({"PUSH"}) /\ Len(tpu_state.stack) < STACK_SIZE)
          => /\ Advances
             /\ tpu_state'.stack =
                    Append(tpu_state.stack,
                           get_operand_value(tpu_state,
                                             ExecutedInstruction.a))
       /\ (Executes({"POP"}) /\ tpu_state.stack # <<>>)
          => /\ Advances
             /\ tpu_state'.stack \o <<read_register(tpu_state',
                                          ExecutedInstruction.a.reg)>>
                    = tpu_state.stack
       /\ Executes({"HLT"})
          => \A below \in RoundTripBelow, values \in RoundTripValues :
                tpu_state.rom = RoundTrip(below, values)
                    => RoundTripEnds(below, values)
       /\ (Executes({"HLT"}) /\ tpu_state.rom = DeepRoundTrip)
          => /\ tpu_state'.halted
             /\ tpu_state'.stack = <<>>
             /\ read_register(tpu_state', "X") = 1]_vars

\* `PUSH 42 ; PUSH 7 ; POP X ; POP Y ; HLT` has halted with X = 7, Y = 42
\* and an empty stack.
C32_RoundTripDone ==
    /\ tpu_state.rom = RoundTrip(<<>>, <<42, 7>>)
    /\ tpu_state.halted
    /\ execute_result = Halt("HLTOpcode")
    /\ read_register(tpu_state, "X") = 7
    /\ read_register(tpu_state, "Y") = 42
    /\ tpu_state.stack = <<>>

\* C33: no step of the TPU or of its surroundings changes the ROM, the
\* direction of a digital or analog pin or the network address: they keep
\* the values given to the constructor.
C33_RomAndConfigurationAreFixed ==
    [][/\ tpu_state'.rom = tpu_state.rom
       /\ tpu_state'.digital_pin_config = tpu_state.digital_pin_config
       /\ tpu_state'.analog_pin_config = tpu_state.analog_pin_config
       /\ tpu_state'.network_address = tpu_state.network_address]_vars

\* APW has written 300 to analog pin 0, which still is an output.
C33_WroteOutputPin ==
    /\ timing.op = "APW"
    /\ timing.completed
    /\ tpu_state.analog_pins[0] = 300
    /\ ~tpu_state.analog_pin_config[0]
    /\ tpu_state.rom = <<Ins2("APW", Imm(0), Imm(300))>>

\* C34: reset() applied in any state (halted, with an instruction in
\* flight, with input pins holding values) yields the initial state:
\* program counter 0, not halted, wait counter 0, no instruction in
\* flight, every register and RAM word 0, the stack and both queues
\* empty, every digital pin false and every analog pin 0.
C34_ResetYieldsInitialState ==
    [][Reset =>
          /\ tpu_state'.program_counter = 0
          /\ ~tpu_state'.halted
          /\ tpu_state'.wait_cycles = 0
          /\ tpu_state'.decoded_opcode = None
          /\ \A register \in Register : tpu_state'.registers[register] = 0
          /\ \A address \in 0 .. (RAM_SIZE - 1) : tpu_state'.ram[address] = 0
          /\ tpu_state'.stack = <<>>
          /\ tpu_state'.incoming_packets = <<>>
          /\ tpu_state'.outgoing_packets = <<>>
          /\ \A pin \in DigitalPin : ~tpu_state'.digital_pins[pin]
          /\ \A pin \in AnalogPin : tpu_state'.analog_pins[pin] = 0]_vars

\* C35: between two calls an instruction is in flight if and only if the
\* wait counter is above 0; so busy() is false after construction and
\* after an instruction has completed or halted the TPU, and true between
\* the ticks of a multi-cycle instruction.
C35_BusyIffInFlight ==
    /\ tpu_state.decoded_opcode # None <=> tpu_state.wait_cycles > 0
    /\ busy(tpu_state) <=> tpu_state.decoded_opcode # None
    /\ timing = NoTiming => ~busy(tpu_state)
    /\ timing.completed => ~busy(tpu_state)
    /\ tpu_state.halted => ~busy(tpu_state)
    /\ (timing.op # "-" /\ ~timing.completed) => busy(tpu_state)

\* A division by zero of 6 cycles is in flight after its fourth tick, and
\* the TPU is busy.
C35_DivisionInFlight ==
    /\ timing.op = "DIV"
    /\ timing.ticks = 4
    /\ ~timing.completed
    /\ tpu_state.wait_cycles = 2
    /\ busy(tpu_state)
    /\ read_register(tpu_state, "Y") = 0

\* C36: every cycle count that decoding produces is at least 1, for every
\* instruction and operand value (SLP 0 included), so that wait_cycles =
\* cycles - 1 does not underflow and the wait counter after a fetch is
\* below the decoded cycle count.
C36_CyclesAtLeastOne ==
    [][FetchTick =>
          LET cycles == decode(tpu_state, CurrentInstruction).cycles
          IN  /\ cycles >= 1
              /\ ~panicked' => tpu_state'.wait_cycles < cycles]_vars

\* The tick being taken runs the body of an instruction, which halts the
\* TPU.
HaltingTick ==
    /\ ~tpu_state.halted
    /\ AnyTick
    /\ ~panicked'
    /\ timing'.completed
    /\ execute_result'.kind = "Halt"

\* C37: an instruction that halts the TPU (HLT, Div0, InvalidPC of a jump,
\* branch, JSR or RTS, StackOverflow, IndexOutOfRange) has no partial
\* effect: the registers, the stack, the RAM, the pins, both queues and
\* the program counter are as they were before it executed; only halted
\* changes.
C37_HaltHasNoPartialEffect ==
    [][HaltingTick =>
          /\ tpu_state'.halted
          /\ tpu_state'.registers = tpu_state.registers
          /\ tpu_state'.stack = tpu_state.stack
          /\ tpu_state'.ram = tpu_state.ram
          /\ tpu_state'.digital_pins = tpu_state.digital_pins
          /\ tpu_state'.analog_pins = tpu_state.analog_pins
          /\ tpu_state'.incoming_packets = tpu_state.incoming_packets
          /\ tpu_state'.outgoing_packets = tpu_state.outgoing_packets
          /\ tpu_state'.program_counter = tpu_state.program_counter]_vars

\* The tick being taken completes the instruction at the last index of
\* the ROM without a transfer of control: an instruction that is no jump,
\* branch, call or return and does not halt, or a branch whose condition
\* is false.
FallsOffTheEnd ==
    /\ Executes(DOMAIN Instruction)
    /\ timing'.pc = Len(tpu_state.rom) - 1
    /\ \/ /\ ExecutedInstruction.op \notin FlowControl
          /\ execute_result'.kind # "Halt"
       \/ /\ ExecutedInstruction.op \in Branch
          /\ ~Taken(tpu_state, ExecutedInstruction)

\* C38: whenever the instruction at the last index of the ROM completes
\* without a transfer of control (any instruction that is not flow
\* control, or a conditional branch, absolute or relative, whose
\* condition is false), the TPU ends halted with the program counter
\* equal to the length of the ROM.
C38_RunningOffTheEndHalts ==
    [][FallsOffTheEnd =>
          /\ tpu_state'.halted
          /\ tpu_state'.program_counter = Len(tpu_state.rom)]_vars

====
